---- MODULE Spec2Model ----
(***************************************************************************)
(* Model of the Alter backend core: the transcription engine               *)
(* (transcription/engine.py), the audio capture sources (audio/capture.py),*)
(* the session transcript log (session/manager.py) and the pipeline loop   *)
(* of the WebSocket router (ws/router.py).                                 *)
(*                                                                         *)
(* One module, several specifications over the same variables:             *)
(*   SpecEngine    threads calling TranscriptionEngine.transcribe_chunk    *)
(*   SpecCallback  the same with a callback registered                     *)
(*   SpecCapture   one AudioCapture: start, stop and its capture workers   *)
(*   SpecSession   one SessionManager: create, load, add_transcript        *)
(*   SpecRename    the same with rename_session                            *)
(*   SpecText      the text transcribe_chunk makes of returned fragments   *)
(*   SpecGate      contains_speech calls, sessions created and loaded      *)
(*   SpecPipeline  recording start and stop, the capture workers, the loop *)
(*                 tasks and their executor jobs                           *)
(*   SpecRecording the same on win32 with a microphone, fairly scheduled   *)
(*   SpecFaults    the same with starts and stops in turn and with faults  *)
(*                 of the file system and of thread creation               *)
(*   SpecDevices   the messages select_devices and recording in any order, *)
(*                 and the capture workers                                 *)
(*   SpecE2E       one recording of the dummy sources with the stub engine,*)
(*                 fairly scheduled                                        *)
(*   SpecCancel    the same recording, and a stop of it                    *)
(* Each specification leaves the variables of the other components at      *)
(* their initial value.                                                    *)
(***************************************************************************)
EXTENDS Integers, Sequences, FiniteSets, TLC

(***************************************************************************)
(* Bounds of the model                                                     *)
(***************************************************************************)
\* threads calling transcribe_chunk on one engine
NThreads == 2
\* calls of transcribe_chunk made in one behaviour
MaxCalls == 2
\* fragments one speech-to-text invocation may return
MaxFrags == 2
\* sample_rate (Hz), scaled down from the configured 16000
SampleRate == 30
\* chunk_duration in tenths of a second, scaled down from 2.0 s
ChunkTenths == 1
\* capture worker threads ever started
MaxWorkers == 2
\* session ids create_session can produce
MaxSessions == 2
\* calls of add_transcript in one behaviour
MaxAdds == 2
\* successful reads and dummy chunks of all capture workers in one behaviour
MaxReads == 4
MaxChunks == 2
MaxAudio == 5
MaxParts == 3
window_size == 2
\* calls of AudioCapture.start in one behaviour
MaxStarts == 2

Threads == 1 .. NThreads
Sources == {"you", "target"}

\* AudioCapture.__init__ / _read_stream: int(sample_rate * chunk_duration)
chunk_size == (SampleRate * ChunkTenths) \div 10

\* None where a string is expected, and where a record is expected: the value
\* a call returns for no segment, the mark of a call that raised, no chunk, and
\* no call returned yet
None == "None"
Absent == [absent |-> TRUE]
Raised == [raised |-> TRUE]
NoChunk == [nochunk |-> TRUE]
NoReturn == [returned |-> FALSE]

(***************************************************************************)
(* Pure helpers of the engine                                              *)
(***************************************************************************)
Whitespace == {" "}

RECURSIVE LStrip(_)
LStrip(s) == IF s # << >> /\ Head(s) \in Whitespace THEN LStrip(Tail(s)) ELSE s

RECURSIVE RStrip(_)
RStrip(s) ==
    IF s # << >> /\ s[Len(s)] \in Whitespace
        THEN RStrip(SubSeq(s, 1, Len(s) - 1))
        ELSE s

\* str.strip() mutated to strip on the left only
MutStrip(s) == LStrip(s)

\* str.strip()
Strip(s) == RStrip(LStrip(s))

\* the loop over segments: texts.append(text) only if text is not empty
RECURSIVE Texts(_)
Texts(frags) ==
    IF frags = << >> THEN << >>
    ELSE LET text == Strip(Head(frags))
         IN  IF text # << >> THEN <<text>> \o Texts(Tail(frags))
                             ELSE Texts(Tail(frags))

\* transcribe_chunk going on with no text
MutNoText(texts) == FALSE

\* if not texts: return None
NoText(texts) == texts = << >>

\* " ".join(texts)
RECURSIVE Join(_)
Join(texts) ==
    IF texts = << >> THEN << >>
    ELSE IF Len(texts) = 1 THEN Head(texts)
    ELSE Head(texts) \o <<" ">> \o Join(Tail(texts))

\* the segment stamped with the time of another chunk
MutTranscriptSegment(chunk, full_text) ==
    [speaker   |-> chunk.source,
     text      |-> full_text,
     timestamp |-> chunk.timestamp + 1,
     duration  |-> [num |-> Len(chunk.data), den |-> SampleRate]]

\* TranscriptSegment(speaker, text, timestamp, duration); the duration
\* len(chunk.data) / sample_rate is kept as the exact fraction num/den
TranscriptSegment(chunk, full_text) ==
    [speaker   |-> chunk.source,
     text      |-> full_text,
     timestamp |-> chunk.timestamp,
     duration  |-> [num |-> Len(chunk.data), den |-> SampleRate]]

\* "cublas" in error_msg.lower() or "cuda" in error_msg.lower()
IsBackendFault(msg) == msg \in {"cuda", "cublas"}

\* the except clause of transcribe_chunk mutated to catch backend faults only
MutCatches(msg) == IsBackendFault(msg)

\* except Exception: every exception class raised inside the try is caught
Catches(msg) == TRUE

\* EngineState of the specification, read off the nullable handle: the handle
\* is tagged with the device it was constructed for
EngineState(m) ==
    CASE m = None   -> "UNLOADED"
      [] m = "cuda" -> "PRIMARY_LOADED"
      [] m = "cpu"  -> "FALLBACK_LOADED"

VARIABLES
    env,            \* "any": collaborators behave arbitrarily; "stub": the test doubles;
                    \* "gate": the test doubles behind a gate that may find no speech
    hint,           \* the configured whisper_device the engine was constructed with
    model,          \* TranscriptionEngine._model: None, or the device of the loaded handle
    device,         \* TranscriptionEngine.device
    compute_type,   \* TranscriptionEngine.compute_type
    lock,           \* TranscriptionEngine._lock: 0 free, else the holding thread
    thr,            \* per thread: position in transcribe_chunk and its locals
    maxConc,        \* how many calls the callers allow at once (1 = sequential use)
    calls,          \* calls of transcribe_chunk made so far
    hwm,            \* high-water mark of concurrent speech-to-text invocations
    lastRet,        \* the call that returned last: its chunk and value
    on_transcript   \* TranscriptionEngine._on_transcript: None, or the callback

engVars ==
    <<env, hint, model, device, compute_type, lock, thr, maxConc, calls, hwm, lastRet,
      on_transcript>>

VARIABLES
    platform,       \* sys.platform: "win32" or another
    audio_capture,  \* AlterBackend.audio_capture: None, or the AudioCapture object cap
    devinfo,        \* per source: what get_device_info_by_index reports for its device
    quota,          \* the reads and dummy chunks a behaviour is followed for
    cap,            \* the AudioCapture object: _running, its threads, audio_queue
    wk,             \* the capture worker threads ever started, with their locals
    nwk,            \* number of worker threads started so far
    nreads,         \* reads made and dummy chunks produced so far, by all workers
    clock,          \* time.time(), counted in chunks put so far
    ctl,            \* the caller of start() and stop(): where it is, calls made
    hist            \* per worker: all audio read so far, all chunk data emitted so far

capVars == <<platform, audio_capture, devinfo, quota, cap, wk, nwk, nreads, clock, ctl, hist>>

VARIABLES
    current_session,    \* SessionManager._current_session: 0 for None, else the session id
    transcript_log,     \* SessionManager._transcript_log
    disk,               \* per session id: has it a metadata.json, and its transcript.jsonl
    written,            \* per session id: the records added while it was the current session
    nadds,              \* calls of add_transcript made so far
    sop                 \* the SessionManager operation made last

sessVars == <<current_session, transcript_log, disk, written, nadds, sop>>

VARIABLES
    task,           \* AlterBackend._transcription_task: 0 for None, else the task
    tasks,          \* the _transcription_loop tasks ever created: where each one is
    jobs,           \* per task: the run_in_executor job it submitted last
    produced,       \* the segments transcribe_chunk returned to a loop, in order
    sent,           \* the transcript messages sent to the frontend, in order
    fate,           \* per chunk (by timestamp): times removed, handed over, completed
    learned,        \* the utterances given to learning_store.record, in order
    notices         \* the other messages sent to the frontend: status and error

rtVars == <<task, tasks, jobs, produced, sent, fate, learned, notices>>

VARIABLES
    vad,            \* VoiceActivityDetector: _model, and the sessions whose chunks fed
                    \* the recurrent state of the model since it was last fresh
    gate            \* the last contains_speech call: its input, what the capability
                    \* did, what was returned

gateVars == <<vad, gate>>

VARIABLES
    txt             \* the fragments one transcription returned and the text made of them

vars == <<engVars, capVars, sessVars, rtVars, gateVars, txt>>

\* what the actions of one component leave alone
notEngine == <<capVars, sessVars, rtVars, gateVars, txt>>
notCapture == <<engVars, sessVars, rtVars, gateVars, txt>>
notSession == <<engVars, capVars, rtVars, gateVars, txt>>
notGate == <<engVars, capVars, sessVars, rtVars, txt>>

\* what the backend's handlers, tasks and jobs never touch
aside == <<gateVars, txt>>

(***************************************************************************)
(* Collaborator outcomes                                                   *)
(***************************************************************************)
Fragments == {<< >>, <<" ", "a">>}

RECURSIVE SeqsUpTo(_, _)
SeqsUpTo(S, n) ==
    IF n = 0 THEN {<< >>}
    ELSE LET shorter == SeqsUpTo(S, n - 1)
         IN  shorter \cup {Append(q, x) : q \in shorter, x \in S}

\* what _model.transcribe and the iteration of its segments can do: return
\* fragments, or raise with a message
SttOutcomes ==
    IF env # "any"
        THEN {[kind |-> "ok", frags |-> <<<<"a">>>>]}
        ELSE {[kind |-> "ok", frags |-> f] : f \in SeqsUpTo(Fragments, MaxFrags)}
             \cup {[kind |-> "exc", msg |-> m] : m \in {"cuda", "cublas", "other"}}

\* VoiceActivityDetector.contains_speech: fails open when the model is unavailable
GateOutcomes == IF env = "stub" THEN {TRUE} ELSE BOOLEAN

\* the registered callback returns, or raises with a message
CallbackOutcomes == IF env # "any" THEN {"ok"} ELSE {"ok", "other"}

\* if self._on_transcript:
Registered(callback) == callback # None

\* WhisperModel(...) returns a handle or raises
LoadOutcomes == IF env # "any" THEN {TRUE} ELSE BOOLEAN

\* one float32 sample of a chunk: the value of the source signal between the
\* frames lo and hi of the stream, lo + (hi - lo) * num / den; frame 0 is silence
Sample(lo, hi, num, den) == [lo |-> lo, hi |-> hi, num |-> num, den |-> den]

\* np.zeros(n, dtype=np.float32)
Zeros(n) == [i \in 1 .. n |-> Sample(0, 0, 0, 1)]

\* the chunk a calling thread submits: odd threads feed the LOCAL source, even
\* threads the REMOTE one, each with a timestamp of its own
EngineChunk(t) ==
    [source |-> IF t % 2 = 1 THEN "you" ELSE "target",
     data |-> Zeros(chunk_size), timestamp |-> t]

IdleThread ==
    [pc |-> "idle", chunk |-> NoChunk, exc |-> None, ret |-> None, ldev |-> None, h |-> None,
     result |-> Absent, told |-> << >>, speech |-> FALSE, load |-> None]

\* speech-to-text invocations in progress
inflight == Cardinality({t \in Threads : thr[t].pc = "infer"})

ActiveCalls == Cardinality({t \in Threads : thr[t].pc # "idle"})

(***************************************************************************)
(* TranscriptionEngine.transcribe_chunk, one action per interleaving point *)
(***************************************************************************)
\* TranscriptionEngine.__init__, but for the callback
EngineFresh ==
    /\ env = "any"
    /\ model = None
    /\ hint \in {"cuda", "cpu"}
    /\ device = hint
    /\ compute_type = IF device = "cuda" THEN "float16" ELSE "int8"
    /\ lock = 0
    /\ thr = [t \in Threads |-> IdleThread]
    /\ maxConc \in {1, NThreads}
    /\ calls = 0
    /\ hwm = 0
    /\ lastRet = NoReturn

EngineInit ==
    /\ EngineFresh
    /\ on_transcript = None

\* a new engine for the accelerator after set_callback(callback)
EngineHeard ==
    /\ EngineFresh
    /\ hint = "cuda"
    /\ on_transcript = "callback"

\* the thread goes on to another place of the call
Goto(t, rec) ==
    /\ thr' = [thr EXCEPT ![t] = rec]
    /\ lastRet' = lastRet

\* what is kept of a call that returned: its chunk and value, the handle it
\* invoked (h), the message of the exception its except clause took (exc),
\* how the fallback that clause started ended (hfb: "loaded" or "failed"),
\* the segments its callback was invoked with (told), what the gate said of
\* its chunk (speech) and, for a call that ends at the check of the handle,
\* how its load_model ended (load: None when the handle was there, "loaded",
\* "fallback" or "failed")
Returned(c, value, h, exc, hfb, told, speech, load) ==
    [chunk |-> c, value |-> value, h |-> h, exc |-> exc, hfb |-> hfb, told |-> told,
     speech |-> speech, load |-> load]

\* the call returns value to its caller
Return(t, value, exc, hfb) ==
    /\ thr' = [thr EXCEPT ![t] = IdleThread]
    /\ lastRet' = Returned(thr[t].chunk, value, thr[t].h, exc, hfb, thr[t].told,
                         thr[t].speech, thr[t].load)

\* transcribe_chunk going on whatever the gate says
MutSpeaks(speech) == TRUE

\* if not self._vad.contains_speech(chunk.data): return None
Speaks(speech) == speech

\* a caller enters transcribe_chunk(chunk);
\* if not self._vad.contains_speech(chunk.data): return None
Call(t) ==
    /\ thr[t].pc = "idle"
    /\ calls < MaxCalls
    /\ ActiveCalls < maxConc
    /\ calls' = calls + 1
    /\ \E speech \in GateOutcomes :
        IF Speaks(speech)
            THEN Goto(t, [IdleThread EXCEPT !.pc = "load_check", !.chunk = EngineChunk(t),
                                            !.speech = speech])
            ELSE /\ thr' = thr
                 /\ lastRet' = Returned(EngineChunk(t), Absent, None, None, None, << >>,
                                      speech, None)
    /\ UNCHANGED <<notEngine, on_transcript, env, hint, model, device, compute_type, lock, maxConc, hwm>>

\* load_model: if self._model is not None: return; else read the constructor arguments
LoadCheck(t) ==
    /\ thr[t].pc = "load_check"
    /\ IF model # None
           THEN Goto(t, [thr[t] EXCEPT !.pc = "check_loaded"])
           ELSE Goto(t, [thr[t] EXCEPT !.pc = "constructing", !.ldev = device])
    /\ UNCHANGED <<notEngine, on_transcript, env, hint, model, device, compute_type, lock, maxConc, calls, hwm>>

\* load_model: WhisperModel(...) returns and is assigned, or raises and the
\* except clause falls back if self.device == "cuda"
LoadEnd(t) ==
    /\ thr[t].pc = "constructing"
    /\ \E ok \in LoadOutcomes :
        IF ok
            THEN /\ model' = thr[t].ldev
                 /\ Goto(t, [thr[t] EXCEPT !.pc = "check_loaded", !.load = "loaded"])
            ELSE /\ model' = model
                 /\ IF device = "cuda"
                        THEN Goto(t, [thr[t] EXCEPT !.pc = "fb_device", !.ret = "load"])
                        ELSE Goto(t, [thr[t] EXCEPT !.pc = "check_loaded", !.load = "failed"])
    /\ UNCHANGED <<notEngine, on_transcript, env, hint, device, compute_type, lock, maxConc, calls, hwm>>

\* _fallback_to_cpu entered without switching self.device to "cpu"
MutFallbackDevice(t) ==
    /\ thr[t].pc = "fb_device"
    /\ Goto(t, [thr[t] EXCEPT !.pc = "fb_discard"])
    /\ UNCHANGED <<notEngine, on_transcript, env, hint, model, device, compute_type, lock, maxConc, calls, hwm>>

\* _fallback_to_cpu: self.device = "cpu"; self.compute_type = "int8"
FallbackDevice(t) ==
    /\ thr[t].pc = "fb_device"
    /\ device' = "cpu"
    /\ compute_type' = "int8"
    /\ Goto(t, [thr[t] EXCEPT !.pc = "fb_discard"])
    /\ UNCHANGED <<notEngine, on_transcript, env, hint, model, lock, maxConc, calls, hwm>>

\* _fallback_to_cpu: self._model = None
FallbackDiscard(t) ==
    /\ thr[t].pc = "fb_discard"
    /\ model' = None
    /\ Goto(t, [thr[t] EXCEPT !.pc = "fb_constructing"])
    /\ UNCHANGED <<notEngine, on_transcript, env, hint, device, compute_type, lock, maxConc, calls, hwm>>

\* _fallback_to_cpu: WhisperModel(device="cpu", compute_type="int8") is assigned,
\* or raises and self._model = None; then back to load_model's caller, or to the
\* return None that ends the except clause of transcribe_chunk
FallbackEnd(t) ==
    /\ thr[t].pc = "fb_constructing"
    /\ \E ok \in LoadOutcomes :
        /\ model' = IF ok THEN "cpu" ELSE None
        /\ IF thr[t].ret = "load"
               THEN Goto(t, [thr[t] EXCEPT !.pc = "check_loaded", !.ret = None,
                                           !.load = IF ok THEN "fallback" ELSE "failed"])
               ELSE Return(t, Absent, thr[t].exc, IF ok THEN "loaded" ELSE "failed")
    /\ UNCHANGED <<notEngine, on_transcript, env, hint, device, compute_type, lock, maxConc, calls, hwm>>

\* transcribe_chunk going on without a handle
MutUnloaded(m) == FALSE

\* self._model is None
Unloaded(m) == m = None

\* if self._model is None: return None
CheckLoaded(t) ==
    /\ thr[t].pc = "check_loaded"
    /\ IF Unloaded(model) THEN Return(t, Absent, None, None)
                          ELSE Goto(t, [thr[t] EXCEPT !.pc = "lock_wait", !.load = None])
    /\ UNCHANGED <<notEngine, on_transcript, env, hint, model, device, compute_type, lock, maxConc, calls, hwm>>

\* the with statement entered without waiting for the lock to be free
MutLockFree == TRUE

\* threading.Lock: acquire blocks until the lock is free
LockFree == lock = 0

\* leaving the with block, normally or by an exception
Release(t) == IF lock = t THEN 0 ELSE lock

\* an exception leaves the try block. except Exception as e takes it: fall back
\* on a CUDA/cuBLAS message, then return None; an exception the clause does not
\* take propagates to the caller
Raise(t, msg) ==
    IF Catches(msg)
        THEN IF IsBackendFault(msg)
                 THEN Goto(t, [thr[t] EXCEPT !.pc = "fb_device", !.ret = "infer",
                                             !.exc = msg])
                 ELSE Return(t, Absent, msg, None)
        ELSE Return(t, Raised, msg, None)

\* with self._lock: self._model.transcribe(...): the handle is read once the
\* lock is held; None has no transcribe
Invoke(t) ==
    /\ thr[t].pc = "lock_wait"
    /\ LockFree
    /\ IF model = None
           THEN /\ Raise(t, "other")
                /\ lock' = lock
                /\ hwm' = hwm
           ELSE /\ Goto(t, [thr[t] EXCEPT !.pc = "infer", !.h = model])
                /\ hwm' = IF inflight + 1 > hwm THEN inflight + 1 ELSE hwm
                /\ lock' = t
    /\ UNCHANGED <<notEngine, on_transcript, env, hint, model, device, compute_type, maxConc, calls>>

\* the invocation ends: fragments are joined into a segment (or None when no
\* text is left), or the invocation raised
InferEnd(t) ==
    /\ thr[t].pc = "infer"
    /\ \E o \in SttOutcomes :
        IF o.kind = "exc" THEN Raise(t, o.msg)
        ELSE LET texts == Texts(o.frags)
             IN  IF NoText(texts)
                     THEN Return(t, Absent, None, None)
                     ELSE LET result == TranscriptSegment(thr[t].chunk, Join(texts))
                          IN  IF Registered(on_transcript)
                                  THEN Goto(t, [thr[t] EXCEPT !.pc = "notify",
                                                              !.result = result])
                                  ELSE Return(t, result, None, None)
    /\ lock' = IF thr'[t].pc = "notify" THEN lock ELSE Release(t)
    /\ UNCHANGED <<notEngine, on_transcript, env, hint, model, device, compute_type, maxConc, calls, hwm>>

\* self._on_transcript(result): the callback is entered with the segment
Notify(t) ==
    /\ thr[t].pc = "notify"
    /\ Goto(t, [thr[t] EXCEPT !.pc = "notified", !.told = Append(thr[t].told, thr[t].result)])
    /\ UNCHANGED <<notEngine, on_transcript, env, hint, model, device, compute_type, lock,
                   maxConc, calls, hwm>>

\* the callback returns and return result leaves the with block, or the
\* callback raises inside the try
NotifyEnd(t) ==
    /\ thr[t].pc = "notified"
    /\ \E c \in CallbackOutcomes :
        IF c = "ok" THEN Return(t, thr[t].result, None, None)
                    ELSE Raise(t, c)
    /\ lock' = Release(t)
    /\ UNCHANGED <<notEngine, on_transcript, env, hint, model, device, compute_type, maxConc,
                   calls, hwm>>

EngineNext ==
    \E t \in Threads :
        \/ Call(t)
        \/ LoadCheck(t)
        \/ LoadEnd(t)
        \/ FallbackDevice(t)
        \/ FallbackDiscard(t)
        \/ FallbackEnd(t)
        \/ CheckLoaded(t)
        \/ Invoke(t)
        \/ InferEnd(t)

\* the engine with a callback
CallbackNext ==
    \/ \E t \in Threads : Notify(t) \/ NotifyEnd(t)
    \/ EngineNext

(***************************************************************************)
(* AudioCapture: start, stop, the capture workers and the shared queue      *)
(***************************************************************************)
Workers == 1 .. MaxWorkers

\* the defaultSampleRate a device may report
NativeRates == {SampleRate, 45}

\* frames_per_read = int(native_rate * 0.1)
FramesPerRead(native_rate) == native_rate \div 10

\* stream.read(frames_per_read) seen as float32: channels floats per frame, the
\* floats of the stream numbered from 1; first is the number of the first frame
Raw(first, frames, channels) ==
    [i \in 1 .. frames * channels |-> (first - 1) * channels + i]

\* audio.reshape(-1, channels).mean(axis=1): one value per frame, the mean of
\* its channels floats, named by the number of the frame
MonoMix(raw, channels) ==
    [i \in 1 .. (Len(raw) \div channels) |-> raw[i * channels] \div channels]

\* new_length = int(len(audio) * ratio), ratio = sample_rate / native_rate
NewLength(n, native_rate) == (n * SampleRate) \div native_rate

\* np.interp(np.linspace(0, n - 1, new_length), np.arange(n), audio): sample j
\* lies at position j * (n - 1) / (new_length - 1) of the slice
Resample(audio, native_rate) ==
    LET n == Len(audio)
        m == NewLength(n, native_rate)
        den == IF m > 1 THEN m - 1 ELSE 1
        At(j) == LET num == j * (n - 1)
                     q == num \div den
                     r == num % den
                 IN  Sample(audio[q + 1], audio[IF r = 0 THEN q + 1 ELSE q + 2], r, den)
    IN  [j \in 1 .. m |-> At(j - 1)]

\* the mono slice of one read, resampled if native_rate != self.sample_rate
Converted(raw, native_rate, channels) ==
    LET audio == IF channels > 1 THEN MonoMix(raw, channels) ELSE raw
    IN  IF native_rate # SampleRate
            THEN Resample(audio, native_rate)
            ELSE [i \in 1 .. Len(audio) |-> Sample(audio[i], audio[i], 0, 1)]

\* the while loop mutated to emit what is buffered without waiting for a full window
MutFullWindow(buffer) == Len(buffer) >= 1

\* while len(buffer) >= target_chunk_samples
FullWindow(buffer) == Len(buffer) >= chunk_size

\* the slice mutated to leave the first buffered sample out of the chunk
MutSliceChunk(buffer) ==
    SubSeq(buffer, 2, IF Len(buffer) < chunk_size + 1 THEN Len(buffer) ELSE chunk_size + 1)

\* chunk_data = buffer[:target_chunk_samples]
SliceChunk(buffer) ==
    SubSeq(buffer, 1, IF Len(buffer) < chunk_size THEN Len(buffer) ELSE chunk_size)

\* buffer = buffer[target_chunk_samples:]
SliceRest(buffer) == SubSeq(buffer, chunk_size + 1, Len(buffer))

\* the chunk data the while loop of _read_stream cuts off the buffer, in order
RECURSIVE Windows(_)
Windows(buffer) ==
    IF FullWindow(buffer)
        THEN <<SliceChunk(buffer)>> \o Windows(SliceRest(buffer))
        ELSE << >>

\* the buffer the while loop of _read_stream leaves
RECURSIVE Remainder(_)
Remainder(buffer) ==
    IF FullWindow(buffer) THEN Remainder(SliceRest(buffer)) ELSE buffer

\* AudioChunk(source, data, timestamp)
AudioChunk(source, data, timestamp) ==
    [source |-> source, data |-> data, timestamp |-> timestamp]

\* the chunks of one pass of the while loop; time.time() advances with every put
Puts(source, windows, now) ==
    [i \in 1 .. Len(windows) |-> AudioChunk(source, windows[i], now + i)]

RECURSIVE Flatten(_)
Flatten(seqs) == IF seqs = << >> THEN << >> ELSE Head(seqs) \o Flatten(Tail(seqs))

NoWorker ==
    [pc |-> "unborn", source |-> None, kind |-> None, native_rate |-> 0, channels |-> 0,
     buffer |-> << >>, frames |-> 0, own |-> None]

\* what a worker has read and put so far, whether its last read failed, and
\* what stop() means to it: "asked" once a stop() has cleared _running in its
\* lifetime, "ignored" while it is in a read it began after that
NoHist == [read |-> << >>, emitted |-> << >>, failed |-> FALSE, stop |-> "none"]

\* the read a worker began is over
Served(stop) == IF stop = "ignored" THEN "asked" ELSE stop

\* self._running as a worker reads it: of the object it is a method of, which
\* is cap unless the backend has replaced that object by a new one; own is
\* then the _running the replaced object was left with
Running(w) == IF wk[w].own = None THEN cap.running ELSE wk[w].own = "running"

\* self.audio_queue after a worker has put chunks: a replaced object's queue is
\* not the queue of cap
Put(w, chunks) ==
    IF wk[w].own = None THEN [cap EXCEPT !.audio_queue = cap.audio_queue \o chunks] ELSE cap

\* AudioCapture.__init__
NewCapture(mic, speaker) ==
    [running |-> FALSE, mic_device_index |-> mic, speaker_device_index |-> speaker,
     mic_thread |-> 0, speaker_thread |-> 0, audio_queue |-> << >>]

DeviceIndices == {None, "dev"}

\* the rate and channels a device reports: a microphone has one or two input
\* channels, a loopback device two; a device that is not opened reports nothing
DeviceInfos(source) ==
    {[native_rate |-> r, channels |-> c] :
        r \in NativeRates, c \in IF source = "you" THEN {1, 2} ELSE {2}}

NoInfo == [native_rate |-> 0, channels |-> 0]

CaptureInit ==
    /\ platform \in {"win32", "linux"}
    /\ audio_capture = "AudioCapture"
    /\ \E mic \in DeviceIndices, speaker \in DeviceIndices :
        /\ platform # "win32" => mic = None /\ speaker = None
        /\ cap = NewCapture(mic, speaker)
        /\ \E you \in IF mic = None THEN {NoInfo} ELSE DeviceInfos("you"),
              target \in IF speaker = None THEN {NoInfo} ELSE DeviceInfos("target") :
            devinfo = [s \in Sources |-> IF s = "you" THEN you ELSE target]
    /\ wk = [w \in Workers |-> NoWorker]
    /\ nwk = 0
    /\ quota = MaxReads
    /\ nreads = 0
    /\ clock = 0
    /\ ctl = [pc |-> "idle", starts |-> 0]
    /\ hist = [w \in Workers |-> NoHist]

\* the capture part at rest, for the specifications that do not run it
CaptureIdle ==
    /\ platform = "linux"
    /\ audio_capture = None
    /\ devinfo = [s \in Sources |-> NoInfo]
    /\ cap = NewCapture(None, None)
    /\ wk = [w \in Workers |-> NoWorker]
    /\ nwk = 0
    /\ quota = MaxReads
    /\ nreads = 0
    /\ clock = 0
    /\ ctl = [pc |-> "idle", starts |-> 0]
    /\ hist = [w \in Workers |-> NoHist]

\* threading.Thread(target=...).start(): a new worker for source
Spawned(source, kind) ==
    [NoWorker EXCEPT !.pc = IF kind = "dummy" THEN "check" ELSE "open",
                     !.source = source, !.kind = kind]

\* the threads start() creates: on win32 one per selected device, else both dummies
ToSpawn ==
    IF platform = "win32"
        THEN (IF cap.mic_device_index # None THEN <<"you">> ELSE << >>)
             \o (IF cap.speaker_device_index # None THEN <<"target">> ELSE << >>)
        ELSE <<"you", "target">>

\* AudioCapture.start: if self._running: return; else set it and start the threads
StartCapture ==
    IF cap.running
        THEN UNCHANGED <<cap, wk, nwk>>
        ELSE LET new == ToSpawn
                 kind == IF platform = "win32" THEN "read" ELSE "dummy"
                 Spawns(source) == \E i \in 1 .. Len(new) : new[i] = source
                 ThreadOf(source) == nwk + (CHOOSE i \in 1 .. Len(new) : new[i] = source)
             IN  /\ nwk + Len(new) <= MaxWorkers
                 /\ nwk' = nwk + Len(new)
                 /\ wk' = [w \in Workers |->
                              IF w > nwk /\ w <= nwk + Len(new)
                                  THEN Spawned(new[w - nwk], kind)
                                  ELSE wk[w]]
                 /\ cap' = [cap EXCEPT
                               !.running = TRUE,
                               !.mic_thread =
                                   IF Spawns("you") THEN ThreadOf("you")
                                                    ELSE cap.mic_thread,
                               !.speaker_thread =
                                   IF Spawns("target") THEN ThreadOf("target")
                                                       ELSE cap.speaker_thread]

\* a caller of AudioCapture.start
Start ==
    /\ ctl.pc = "idle"
    /\ ctl.starts < MaxStarts
    /\ ctl' = [ctl EXCEPT !.starts = ctl.starts + 1]
    /\ StartCapture
    /\ UNCHANGED <<notCapture, platform, audio_capture, devinfo, quota, nreads, clock, hist>>

\* AudioCapture.stop: self._running = False, then the joins
StopCapture ==
    /\ cap' = [cap EXCEPT !.running = FALSE]
    /\ ctl' = [ctl EXCEPT !.pc = "join_mic"]
    /\ hist' = [w \in Workers |->
                   IF wk[w].pc \notin {"unborn", "dead"} /\ hist[w].stop = "none"
                       THEN [hist[w] EXCEPT !.stop = "asked"]
                       ELSE hist[w]]

\* a caller of AudioCapture.stop
Stop ==
    /\ ctl.pc = "idle"
    /\ cap.running \/ cap.mic_thread # 0 \/ cap.speaker_thread # 0
    /\ StopCapture
    /\ UNCHANGED <<notCapture, platform, audio_capture, devinfo, quota, wk, nwk, nreads, clock>>

\* Thread.join(timeout=3.0) returns when the thread has ended, and at the
\* timeout when it has not: it returns whatever the thread does
Joinable(w) == IF w = 0 THEN TRUE ELSE wk[w].pc = "dead" \/ wk[w].pc # "dead"

\* if self._mic_thread: self._mic_thread.join(timeout=3.0)
JoinMic ==
    /\ ctl.pc = "join_mic"
    /\ Joinable(cap.mic_thread)
    /\ ctl' = [ctl EXCEPT !.pc = "join_speaker"]
    /\ UNCHANGED <<notCapture, platform, audio_capture, devinfo, quota, cap, wk, nwk, nreads, clock, hist>>

\* if self._speaker_thread: self._speaker_thread.join(timeout=3.0); stop()
\* returns to its caller, which goes on at back
JoinSpeakerThread(back) ==
    /\ ctl.pc = "join_speaker"
    /\ Joinable(cap.speaker_thread)
    /\ ctl' = [ctl EXCEPT !.pc = back]

JoinSpeaker ==
    /\ JoinSpeakerThread("idle")
    /\ UNCHANGED <<notCapture, platform, audio_capture, devinfo, quota, cap, wk, nwk, nreads, clock, hist>>

\* _capture_mic_windows / _capture_speaker_windows up to _read_stream: the
\* device reports its rate and channels and the stream opens, or the import,
\* the device query or p.open fails and the thread ends
Open(w) ==
    /\ wk[w].pc = "open"
    /\ \/ /\ wk' = [wk EXCEPT ![w] = [wk[w] EXCEPT
                      !.pc = "check",
                      !.native_rate = devinfo[wk[w].source].native_rate,
                      !.channels = devinfo[wk[w].source].channels]]
          /\ UNCHANGED hist
       \/ /\ wk' = [wk EXCEPT ![w] = [wk[w] EXCEPT !.pc = "dead"]]
          /\ hist' = [hist EXCEPT ![w].stop = "none"]
    /\ UNCHANGED <<notCapture, platform, audio_capture, devinfo, quota, cap, nwk, nreads, clock, ctl>>

\* while self._running: of _read_stream and of _dummy_stream
Check(w) ==
    /\ wk[w].pc = "check"
    /\ wk' = [wk EXCEPT ![w] = [wk[w] EXCEPT !.pc =
                 IF Running(w) THEN (IF wk[w].kind = "dummy" THEN "emit" ELSE "read")
                                ELSE "dead"]]
    /\ hist' = [hist EXCEPT ![w].stop =
                   IF Running(w)
                       THEN (IF hist[w].stop = "asked" THEN "ignored" ELSE hist[w].stop)
                       ELSE "none",
                            ![w].failed = IF Running(w) THEN hist[w].failed ELSE FALSE]
    /\ UNCHANGED <<notCapture, platform, audio_capture, devinfo, quota, cap, nwk, nreads, clock, ctl>>

\* _read_stream: one read that succeeds: convert, append to the buffer, put
\* every full window on the queue
ReadOk(w) ==
    /\ wk[w].pc = "read"
    /\ nreads < quota
    /\ nreads' = nreads + 1
    /\ LET frames == FramesPerRead(wk[w].native_rate)
           raw == Raw(wk[w].frames + 1, frames, wk[w].channels)
           audio == Converted(raw, wk[w].native_rate, wk[w].channels)
           buffer == wk[w].buffer \o audio
           windows == Windows(buffer)
       IN  /\ wk' = [wk EXCEPT ![w] = [wk[w] EXCEPT !.pc = "check",
                                                    !.buffer = Remainder(buffer),
                                                    !.frames = wk[w].frames + frames]]
           /\ cap' = Put(w, Puts(wk[w].source, windows, clock))
           /\ clock' = clock + Len(windows)
           /\ hist' = [hist EXCEPT ![w].read = hist[w].read \o audio,
                                   ![w].emitted = hist[w].emitted \o Flatten(windows),
                                   ![w].failed = FALSE,
                                   ![w].stop = Served(hist[w].stop)]
    /\ UNCHANGED <<notCapture, platform, audio_capture, devinfo, quota, nwk, ctl>>

MutOnReadError(worker, running) == [worker EXCEPT !.pc = "dead"]

\* except Exception as e: if self._running: print(...); time.sleep(0.1): the
\* worker and its buffer are kept
OnReadError(worker, running) ==
    [worker EXCEPT !.pc = IF running THEN "backoff" ELSE "check"]

\* _read_stream: stream.read raises: if self._running, warn and sleep 0.1 s
ReadFail(w) ==
    /\ wk[w].pc = "read"
    /\ wk' = [wk EXCEPT ![w] = OnReadError(wk[w], Running(w))]
    /\ hist' = [hist EXCEPT ![w].failed = TRUE, ![w].stop = Served(hist[w].stop)]
    /\ UNCHANGED <<notCapture, platform, audio_capture, devinfo, quota, cap, nwk, nreads, clock, ctl>>

\* time.sleep(0.1) of the except clause ends
Backoff(w) ==
    /\ wk[w].pc = "backoff"
    /\ wk' = [wk EXCEPT ![w] = [wk[w] EXCEPT !.pc = "check"]]
    /\ UNCHANGED <<notCapture, platform, audio_capture, devinfo, quota, cap, nwk, nreads, clock, ctl, hist>>

\* _dummy_stream: put a chunk of chunk_size zeros
DummyEmit(w) ==
    /\ wk[w].pc = "emit"
    /\ nreads < quota
    /\ nreads' = nreads + 1
    /\ LET silence == Zeros(chunk_size)
       IN  /\ cap' = Put(w, <<AudioChunk(wk[w].source, silence, clock + 1)>>)
           /\ hist' = [hist EXCEPT ![w].read = hist[w].read \o silence,
                                   ![w].emitted = hist[w].emitted \o silence,
                                   ![w].stop = Served(hist[w].stop)]
    /\ clock' = clock + 1
    /\ wk' = [wk EXCEPT ![w] = [wk[w] EXCEPT !.pc = "sleep"]]
    /\ UNCHANGED <<notCapture, platform, audio_capture, devinfo, quota, nwk, ctl>>

\* time.sleep(self.chunk_duration) ends
DummyWake(w) ==
    /\ wk[w].pc = "sleep"
    /\ wk' = [wk EXCEPT ![w] = [wk[w] EXCEPT !.pc = "check"]]
    /\ UNCHANGED <<notCapture, platform, audio_capture, devinfo, quota, cap, nwk, nreads, clock, ctl, hist>>

CaptureNext ==
    \/ Start
    \/ Stop
    \/ JoinMic
    \/ JoinSpeaker
    \/ \E w \in Workers :
        \/ Open(w)
        \/ Check(w)
        \/ ReadOk(w)
        \/ ReadFail(w)
        \/ Backoff(w)
        \/ DummyEmit(w)
        \/ DummyWake(w)

(***************************************************************************)
(* SessionManager: the sessions on disk, the current one, its transcript   *)
(***************************************************************************)
SessionIds == 1 .. MaxSessions

\* characters that have no printable name: line feed, double quote, backslash
LF == "LF"
QUOTE == "QUOTE"
BSL == "BSL"

\* a str as the sequence of its characters
SpeakerChars(speaker) ==
    IF speaker = "you" THEN <<"y", "o", "u">> ELSE <<"t", "a", "r", "g", "e", "t">>

SpeakerNamed(chars) ==
    IF chars = SpeakerChars("you") THEN "you"
    ELSE IF chars = SpeakerChars("target") THEN "target"
    ELSE "unknown"

\* the texts add_transcript is called with
TranscriptTexts ==
    {<<"a">>, <<"a", LF, "a">>, <<BSL, "n">>, <<QUOTE, ",", " ", QUOTE>>}

Digits == <<"1", "2", "3", "4", "5", "6", "7", "8", "9">>

\* json.dumps mutated to write every character of a string as it is
MutEscapeChar(c) == <<c>>

\* json.dumps of one character of a str, ensure_ascii=False
EscapeChar(c) ==
    CASE c = LF    -> <<BSL, "n">>
      [] c = QUOTE -> <<BSL, QUOTE>>
      [] c = BSL   -> <<BSL, BSL>>
      [] OTHER     -> <<c>>

RECURSIVE EscapeAll(_)
EscapeAll(chars) ==
    IF chars = << >> THEN << >> ELSE EscapeChar(Head(chars)) \o EscapeAll(Tail(chars))

\* json.dumps of a str
EncodeString(chars) == <<QUOTE>> \o EscapeAll(chars) \o <<QUOTE>>

\* json.dumps of a timestamp
EncodeNumber(n) == <<Digits[n]>>

\* json.dumps(entry, ensure_ascii=False): the keys are fixed, so the object is
\* written as its three values in the order of the keys
JsonDumps(entry) ==
    <<"{">> \o EncodeString(SpeakerChars(entry.speaker)) \o <<",", " ">>
            \o EncodeString(entry.text) \o <<",", " ">>
            \o EncodeNumber(entry.timestamp) \o <<"}">>

\* json.loads raises
ParseError == [ok |-> FALSE]

\* the characters of a JSON string up to its closing quote, escapes decoded; a
\* raw control character or an unknown escape is an error
RECURSIVE ScanString(_, _, _)
ScanString(s, i, acc) ==
    IF i > Len(s) THEN ParseError
    ELSE IF s[i] = QUOTE THEN [ok |-> TRUE, val |-> acc, next |-> i + 1]
    ELSE IF s[i] = LF THEN ParseError
    ELSE IF s[i] # BSL THEN ScanString(s, i + 1, Append(acc, s[i]))
    ELSE IF i + 1 > Len(s) THEN ParseError
    ELSE IF s[i + 1] = "n" THEN ScanString(s, i + 2, Append(acc, LF))
    ELSE IF s[i + 1] \in {QUOTE, BSL} THEN ScanString(s, i + 2, Append(acc, s[i + 1]))
    ELSE ParseError

ParseString(s, i) ==
    IF i <= Len(s) /\ s[i] = QUOTE THEN ScanString(s, i + 1, << >>) ELSE ParseError

DigitValue(c) == CHOOSE n \in 1 .. Len(Digits) : Digits[n] = c

\* json.loads(line)
JsonLoads(line) ==
    LET Is(i, c) == i <= Len(line) /\ line[i] = c
        speaker == ParseString(line, 2)
    IN  IF ~Is(1, "{") \/ ~speaker.ok THEN ParseError
        ELSE LET i == speaker.next
                 text == ParseString(line, i + 2)
             IN  IF ~Is(i, ",") \/ ~Is(i + 1, " ") \/ ~text.ok THEN ParseError
                 ELSE LET j == text.next
                      IN  IF /\ Is(j, ",")
                             /\ Is(j + 1, " ")
                             /\ j + 3 = Len(line)
                             /\ \E n \in 1 .. Len(Digits) : Digits[n] = line[j + 2]
                             /\ Is(j + 3, "}")
                              THEN [ok |-> TRUE,
                                    val |-> [speaker |-> SpeakerNamed(speaker.val),
                                             text |-> text.val,
                                             timestamp |-> DigitValue(line[j + 2])]]
                              ELSE ParseError

\* for line in f: the file cut after every line feed; the line that starts at
\* character start is looked through from character i on
RECURSIVE SplitLines(_, _, _)
SplitLines(content, start, i) ==
    IF i > Len(content)
        THEN (IF start > Len(content) THEN << >> ELSE <<SubSeq(content, start, Len(content))>>)
    ELSE IF content[i] = LF
        THEN <<SubSeq(content, start, i - 1)>> \o SplitLines(content, i + 1, i + 1)
    ELSE SplitLines(content, start, i + 1)

\* line = line.strip(); if line: entries.append(json.loads(line))
RECURSIVE ParseLines(_, _)
ParseLines(lines, entries) ==
    IF lines = << >> THEN [ok |-> TRUE, val |-> entries]
    ELSE LET line == Strip(Head(lines))
         IN  IF line = << >> THEN ParseLines(Tail(lines), entries)
             ELSE LET entry == JsonLoads(line)
                  IN  IF ~entry.ok THEN ParseError
                      ELSE ParseLines(Tail(lines), Append(entries, entry.val))

\* SessionManager._load_transcript; a file that does not exist reads as empty
LoadTranscript(content) == ParseLines(SplitLines(content, 1, 1), << >>)

NoSession == [metadata |-> FALSE, transcript |-> << >>]

\* SessionManager.__init__ on an empty data directory
SessionInit ==
    /\ current_session = 0
    /\ transcript_log = << >>
    /\ disk = [id \in SessionIds |-> NoSession]
    /\ written = [id \in SessionIds |-> << >>]
    /\ nadds = 0
    /\ sop = "init"

\* SessionManager.create_session: the id is the time to the second, so it is
\* the latest id on disk or a later one
CreateSessionAs(id) ==
    /\ \A other \in SessionIds : disk[other].metadata => other <= id
    /\ disk' = [disk EXCEPT ![id].metadata = TRUE]
    /\ current_session' = id
    /\ transcript_log' = << >>
    /\ written' = written
    /\ sop' = "create"

CreateSession ==
    /\ \E id \in SessionIds : CreateSessionAs(id)
    /\ UNCHANGED <<notSession, nadds>>

\* SessionManager.load_session
LoadSession ==
    /\ \E id \in SessionIds :
        IF ~disk[id].metadata
            THEN /\ sop' = "load_none"
                 /\ UNCHANGED <<current_session, transcript_log>>
            ELSE \E entries \in {LoadTranscript(disk[id].transcript)} :
                     /\ current_session' = id
                     /\ transcript_log' = IF entries.ok THEN entries.val ELSE transcript_log
                     /\ sop' = IF entries.ok THEN "load" ELSE "load_failed"
    /\ UNCHANGED <<notSession, disk, written, nadds>>

\* the file opened with "w": what it held is gone
MutWritten(content, entry) == JsonDumps(entry) \o <<LF>>

\* _append_to_log: open(log_path, "a"), write json.dumps(entry) and "\n"
Written(content, entry) == content \o JsonDumps(entry) \o <<LF>>

\* SessionManager.add_transcript: append in memory, then to the file of the
\* current session if there is one
AddTranscriptOf(speaker, text, timestamp) ==
    LET entry == [speaker |-> speaker, text |-> text, timestamp |-> timestamp]
    IN  /\ transcript_log' = Append(transcript_log, entry)
        /\ IF current_session # 0
               THEN /\ disk' = [disk EXCEPT ![current_session].transcript =
                                   Written(@, entry)]
                    /\ written' = [written EXCEPT ![current_session] = Append(@, entry)]
               ELSE UNCHANGED <<disk, written>>
        /\ nadds' = nadds + 1
        /\ sop' = "add"

AddTranscript ==
    /\ nadds < MaxAdds
    /\ \E speaker \in Sources, text \in TranscriptTexts :
        AddTranscriptOf(speaker, text, nadds + 1)
    /\ UNCHANGED <<notSession, current_session>>

\* SessionManager.rename_session: metadata.json of a session that has one is
\* read and written again with the new name; of a session that has none
\* nothing is done
RenameSession ==
    /\ \E id \in SessionIds : disk[id].metadata
    /\ sop' = "rename"
    /\ UNCHANGED <<notSession, current_session, transcript_log, disk, written, nadds>>

SessionNext ==
    \/ CreateSession
    \/ LoadSession
    \/ AddTranscript

\* the session manager with sessions renamed too
RenamingNext ==
    \/ SessionNext
    \/ RenameSession

(***************************************************************************)
(* The text of a segment                                                   *)
(***************************************************************************)
\* seg.text of the segments a transcription may return
Parts == {<< >>, <<" ">>, <<"a">>, <<" ", "b", " ">>, <<"a", " ", "b">>}

\* no transcription yet
NoTranscription == [frags |-> << >>, absent |-> TRUE, text |-> << >>, done |-> FALSE]

TextInit == txt = NoTranscription

\* transcribe_chunk, lines 156-166, on the fragments a transcription returned:
\* None is returned (absent), or a segment with the text
JoinFragments ==
    /\ ~txt.done
    /\ \E frags \in SeqsUpTo(Parts, MaxParts) :
        LET texts == Texts(frags)
        IN  txt' = [frags |-> frags,
                    absent |-> NoText(texts),
                    text |-> IF NoText(texts) THEN << >> ELSE Join(texts),
                    done |-> TRUE]
    /\ UNCHANGED <<engVars, capVars, sessVars, rtVars, gateVars>>

\* another transcription
NextFragments ==
    /\ txt.done
    /\ txt' = NoTranscription
    /\ UNCHANGED <<engVars, capVars, sessVars, rtVars, gateVars>>

TextNext ==
    \/ JoinFragments
    \/ NextFragments

(***************************************************************************)
(* VoiceActivityDetector                                                   *)
(***************************************************************************)
\* self.threshold, on the scale of Confidences
threshold == 1

\* what self._model(window, sample_rate).item() can give
Confidences == {0, 1, 2}

\* ... or the call raises: the score that stands for it
Raises == 0 - 1

Scores == Confidences \cup {Raises}

\* the sub-windows of window_size samples that lie whole in n samples, counted from 1
FullWindows(n) == 1 .. (n \div window_size)

\* range(0, len(tensor) - window_size, window_size), as the numbers of the
\* sub-windows it visits
ScanRange(n) == {k \in FullWindows(n) : (k - 1) * window_size < n - window_size}

\* the for loop over the sub-windows from k on: "speech" at the first
\* confidence above the threshold, "error" if the capability raises before
\* that, "none" when the range is used up
RECURSIVE Scan(_, _, _)
Scan(k, n, scores) ==
    IF k \notin ScanRange(n) THEN "none"
    ELSE IF scores[k] = Raises THEN "error"
    ELSE IF scores[k] > threshold THEN "speech"
    ELSE Scan(k + 1, n, scores)

\* the gate mutated to fail closed
MutVerdict(outcome) == outcome = "speech"

\* what contains_speech returns: True for speech, for a capability that is
\* not available and for an error; False when the scan finds nothing
Verdict(outcome) == outcome \in {"speech", "unavailable", "error"}

\* contains_speech(audio) after _load_model(): how the call goes
GateOutcome(available, tensor_ok, n, scores) ==
    IF ~available THEN "unavailable"
    ELSE IF ~tensor_ok THEN "error"
    ELSE Scan(1, n, scores)

\* reset(): the recurrent state of the model is fresh again
Reset(v) == [v EXCEPT !.fed = {}]

NoGateCall ==
    [called |-> FALSE, n |-> 0, scores |-> << >>, outcome |-> "none", result |-> FALSE]

\* VoiceActivityDetector.__init__
GateInit ==
    /\ vad = [model |-> None, fed |-> {}]
    /\ gate = NoGateCall

\* contains_speech(audio) on audio of n samples: _load_model() loads the model
\* if there is none and torch.hub.load succeeds; then the scan
ContainsSpeech ==
    \E n \in 0 .. MaxAudio, load_ok \in BOOLEAN, tensor_ok \in BOOLEAN :
        \E scores \in [FullWindows(n) -> Scores] :
            LET available == vad.model # None \/ load_ok
                outcome == GateOutcome(available, tensor_ok, n, scores)
                scored == available /\ tensor_ok /\ ScanRange(n) # {}
                         /\ scores[1] # Raises
            IN  /\ vad' = [model |-> IF available THEN "silero" ELSE None,
                           fed |-> IF scored THEN vad.fed \cup {current_session}
                                   ELSE vad.fed]
                /\ gate' = [called |-> TRUE, n |-> n, scores |-> scores,
                            outcome |-> outcome, result |-> Verdict(outcome)]
                /\ UNCHANGED notGate

\* the gate, and the sessions created and loaded around it
GateNext ==
    \/ ContainsSpeech
    \/ CreateSession
    \/ LoadSession

(***************************************************************************)
(* AlterBackend: the recording handlers, the _transcription_loop tasks and *)
(* the jobs they run in the executor                                       *)
(***************************************************************************)
TaskIds == 1 .. MaxStarts

ChunkIds == 1 .. MaxReads

NoTask == [pc |-> "unborn", seg |-> Absent]

NoJob == [kind |-> "none", state |-> "none", chunk |-> NoChunk, value |-> Absent]

NoFate == [taken |-> 0, handed |-> 0, done |-> 0]

\* AlterBackend.__init__: no task
RouterInit ==
    /\ task = 0
    /\ tasks = [i \in TaskIds |-> NoTask]
    /\ jobs = [i \in TaskIds |-> NoJob]
    /\ produced = << >>
    /\ sent = << >>
    /\ fate = [k \in ChunkIds |-> NoFate]
    /\ learned = << >>
    /\ notices = {}

\* load_model run to its end by one caller: the handle, device and compute
\* type it leaves
Loaded(m, d, ct, load_ok, fallback_ok) ==
    IF m # None THEN [model |-> m, device |-> d, compute_type |-> ct]
    ELSE IF load_ok THEN [model |-> d, device |-> d, compute_type |-> ct]
    ELSE IF d = "cuda"
        THEN [model |-> IF fallback_ok THEN "cpu" ELSE None,
              device |-> "cpu", compute_type |-> "int8"]
    ELSE [model |-> None, device |-> d, compute_type |-> ct]

\* transcribe_chunk(chunk) run to its end by one caller: the value it returns
\* and the engine it leaves
Transcribed(chunk, speech, load_ok, fallback_ok, refallback_ok, o) ==
    LET before == [model |-> model, device |-> device, compute_type |-> compute_type]
        loaded == Loaded(model, device, compute_type, load_ok, fallback_ok)
    IN  IF ~speech THEN [value |-> Absent, engine |-> before]
        ELSE IF loaded.model = None THEN [value |-> Absent, engine |-> loaded]
        ELSE IF o.kind = "exc"
            THEN [value |-> Absent,
                  engine |-> IF IsBackendFault(o.msg)
                                 THEN [model |-> IF refallback_ok THEN "cpu" ELSE None,
                                       device |-> "cpu", compute_type |-> "int8"]
                                 ELSE loaded]
        ELSE [value |-> IF Texts(o.frags) = << >> THEN Absent
                        ELSE TranscriptSegment(chunk, Join(Texts(o.frags))),
              engine |-> loaded]

\* the loop mutated to go on with the segments of the local speaker only
MutAccepted(segment) == segment # Absent /\ segment.speaker = "you"

\* if segment is None: continue
Accepted(segment) == segment # Absent

\* {"type": "transcript", "speaker": ..., "text": ..., "timestamp": ...}
TranscriptMessage(segment) ==
    [speaker |-> segment.speaker, text |-> segment.text, timestamp |-> segment.timestamp]

\* {"type": "status", "recording": ..., "session": ...}; session 0 when the
\* message has none
StatusMessage(recording, session) ==
    [type |-> "status", recording |-> recording, session |-> session, message |-> ""]

\* {"type": "error", "message": f"...: {e}"}
ErrorMessage(e) ==
    [type |-> "error", recording |-> FALSE, session |-> 0, message |-> e]

\* str(e) of the exceptions the try block of the start branch can meet
ErrorTexts == {"OSError", "RuntimeError"}

\* UserUtterance(text, timestamp, session_id)
UserUtterance(segment) ==
    [text |-> segment.text, timestamp |-> segment.timestamp, session_id |-> current_session]

\* transcribe_chunk called by the loop itself: the thread of the event loop is
\* inside the call until it returns
MutOnScheduler(job) == job.kind = "stt" /\ job.state = "running"

\* await loop.run_in_executor(None, ...): the call runs in a thread of the
\* pool, never in the thread of the event loop
OnScheduler(job) == FALSE

\* a coroutine or a handler runs only while no handler holds the event loop
\* and the thread of the loop is in no blocking call
LoopFree == ctl.pc = "idle" /\ \A i \in TaskIds : ~OnScheduler(jobs[i])

\* chunk = await loop.run_in_executor(None, self.audio_capture.get_chunk, 1.0)
SubmitGet(i) ==
    /\ tasks' = [tasks EXCEPT ![i] = [pc |-> "await_get", seg |-> Absent]]
    /\ jobs' = [jobs EXCEPT ![i] = [NoJob EXCEPT !.kind = "get", !.state = "running"]]

Bump(k, field) == [fate EXCEPT ![k][field] = @ + 1]

\* _handle_recording, action "start" (devices are selected): create a session
\* if there is none, start the capture, create the loop task
RecordingStart ==
    /\ LoopFree
    /\ ctl.starts < MaxStarts
    /\ IF current_session = 0
           THEN CreateSessionAs(1)
           ELSE UNCHANGED <<current_session, transcript_log, disk, written, sop>>
    /\ StartCapture
    /\ tasks' = [tasks EXCEPT ![ctl.starts + 1] = [NoTask EXCEPT !.pc = "new"]]
    /\ task' = ctl.starts + 1
    /\ ctl' = [ctl EXCEPT !.starts = ctl.starts + 1]
    /\ notices' = notices \cup {StatusMessage(TRUE, current_session')}
    /\ UNCHANGED <<aside, engVars, platform, audio_capture, devinfo, quota, nreads, clock, hist, nadds,
                   jobs, produced, sent, fate, learned>>

\* _handle_recording, action "stop": self.audio_capture.stop() ...
RecordingStop ==
    /\ LoopFree
    /\ ctl.starts > 0
    /\ StopCapture
    /\ UNCHANGED <<aside, engVars, sessVars, rtVars, platform, audio_capture, devinfo, quota, wk, nwk, nreads, clock>>

\* ... the second join of stop() returns to the handler ...
RecordingJoined ==
    /\ JoinSpeakerThread("cancel")
    /\ UNCHANGED <<aside, engVars, sessVars, rtVars, platform, audio_capture, devinfo, quota, cap, wk, nwk, nreads,
                   clock, hist>>

\* ... if self._transcription_task: cancel it and forget it. The task ends at
\* the await it is suspended at; the result of the job it awaits is dropped,
\* the job itself runs on in its executor thread
RecordingCancel ==
    /\ ctl.pc = "cancel"
    /\ ctl' = [ctl EXCEPT !.pc = "idle"]
    /\ task' = 0
    /\ IF task = 0
           THEN UNCHANGED <<tasks, jobs, sent>>
           ELSE /\ tasks' = [tasks EXCEPT ![task] = [pc |-> "done", seg |-> Absent]]
                /\ jobs' = [jobs EXCEPT ![task] =
                               IF jobs[task].state = "running" THEN jobs[task] ELSE NoJob]
                /\ IF tasks[task].pc = "await_send"
                       THEN \/ sent' = sent
                            \/ sent' = Append(sent, TranscriptMessage(tasks[task].seg))
                       ELSE sent' = sent
    /\ notices' = notices \cup {StatusMessage(FALSE, 0)}
    /\ UNCHANGED <<aside, engVars, sessVars, platform, audio_capture, devinfo, quota, cap, wk, nwk, nreads,
                   clock, hist, produced, fate, learned>>

\* the try block of the start branch raises: the exception is caught and its
\* text sent in an error message. Either create_session fails at once, or
\* start() has set _running and cannot start its first thread
RecordingStartFails ==
    /\ LoopFree
    /\ \E e \in ErrorTexts :
        notices' = notices \cup {ErrorMessage(e)}
    /\ \/ /\ current_session = 0
          /\ UNCHANGED <<sessVars, cap>>
       \/ /\ ~cap.running
          /\ IF current_session = 0
                 THEN CreateSessionAs(1)
                 ELSE UNCHANGED <<current_session, transcript_log, disk, written, sop>>
          /\ cap' = [cap EXCEPT !.running = TRUE]
          /\ nadds' = nadds
    /\ UNCHANGED <<aside, engVars, platform, audio_capture, devinfo, quota, wk, nwk, nreads, clock, ctl, hist,
                   task, tasks, jobs, produced, sent, fate, learned>>

\* {"type": "devices_selected", "success": True}
DevicesSelected == [type |-> "devices_selected", recording |-> FALSE, session |-> 0, message |-> ""]

\* _handle_select_devices: self.audio_capture = AudioCapture(...). The object
\* the field held is neither stopped nor kept: its workers run on with the
\* _running it is left with, and put on its own queue
SelectDevices(mic, speaker) ==
    /\ LoopFree
    /\ cap' = NewCapture(mic, speaker)
    /\ audio_capture' = "AudioCapture"
    /\ wk' = [w \in Workers |->
                 IF wk[w].pc \notin {"unborn", "dead"} /\ wk[w].own = None
                     THEN [wk[w] EXCEPT !.own = IF cap.running THEN "running" ELSE "stopped"]
                     ELSE wk[w]]
    /\ notices' = notices \cup {DevicesSelected}
    /\ UNCHANGED <<aside, engVars, sessVars, platform, devinfo, quota, nwk, nreads, clock, ctl,
                   hist, task, tasks, jobs, produced, sent, fate, learned>>

\* the start branch mutated to go on without an AudioCapture
MutUnselected(capture) == FALSE

\* if self.audio_capture is None
Unselected(capture) == capture = None

\* the message of the error a start without devices is answered with
NoDevices == "no_devices"

\* _handle_recording, action "start": without an AudioCapture an error is sent
\* and the handler returns; else the start goes on
RecordingStartMessage ==
    IF Unselected(audio_capture)
        THEN /\ LoopFree
             /\ notices' = notices \cup {ErrorMessage(NoDevices)}
             /\ UNCHANGED <<aside, engVars, capVars, sessVars, task, tasks, jobs, produced, sent,
                            fate, learned>>
        ELSE RecordingStart

\* _handle_recording, action "stop": if self.audio_capture: stop it; without
\* one the handler goes on to the task at once
RecordingStopMessage ==
    IF audio_capture = None
        THEN /\ LoopFree
             /\ ctl' = [ctl EXCEPT !.pc = "cancel"]
             /\ UNCHANGED <<aside, engVars, sessVars, rtVars, platform, audio_capture, devinfo,
                            quota, cap, wk, nwk, nreads, clock, hist>>
        ELSE RecordingStop

\* the task runs for the first time: while True: ... get_chunk
LoopBegin(i) ==
    /\ LoopFree
    /\ tasks[i].pc = "new"
    /\ SubmitGet(i)
    /\ UNCHANGED <<aside, engVars, capVars, sessVars, task, produced, sent, fate, learned, notices>>

\* AudioCapture.get_chunk in an executor thread: self.audio_queue.get(timeout)
\* returns the oldest chunk, or the queue stays empty and None is returned
GetChunk(i) ==
    /\ jobs[i].kind = "get"
    /\ jobs[i].state = "running"
    /\ LET awaited == tasks[i].pc = "await_get"
           Result(chunk) == IF awaited
                                THEN [jobs[i] EXCEPT !.state = "ready", !.chunk = chunk]
                                ELSE NoJob
       IN  IF cap.audio_queue # << >>
               THEN /\ cap' = [cap EXCEPT !.audio_queue = Tail(cap.audio_queue)]
                    /\ jobs' = [jobs EXCEPT ![i] = Result(Head(cap.audio_queue))]
                    /\ fate' = Bump(Head(cap.audio_queue).timestamp, "taken")
               ELSE /\ jobs' = [jobs EXCEPT ![i] = Result(NoChunk)]
                    /\ UNCHANGED <<cap, fate>>
    /\ UNCHANGED <<aside, engVars, sessVars, platform, audio_capture, devinfo, quota, wk, nwk, nreads, clock, ctl, hist,
                   task, tasks, produced, sent, learned, notices>>

\* the loop gets the result of get_chunk: if chunk is None: continue; else
\* segment = await loop.run_in_executor(None, transcribe_chunk, chunk)
LoopGot(i) ==
    /\ LoopFree
    /\ tasks[i].pc = "await_get"
    /\ jobs[i].state = "ready"
    /\ IF jobs[i].chunk = NoChunk
           THEN /\ SubmitGet(i)
                /\ fate' = fate
           ELSE /\ tasks' = [tasks EXCEPT ![i].pc = "await_stt"]
                /\ jobs' = [jobs EXCEPT ![i] = [jobs[i] EXCEPT !.kind = "stt",
                                                               !.state = "running"]]
                /\ fate' = Bump(jobs[i].chunk.timestamp, "handed")
    /\ UNCHANGED <<aside, engVars, capVars, sessVars, task, produced, sent, learned, notices>>

\* TranscriptionEngine.transcribe_chunk in an executor thread
SttRun(i) ==
    /\ jobs[i].kind = "stt"
    /\ jobs[i].state = "running"
    /\ \E speech \in GateOutcomes, load_ok \in LoadOutcomes, fallback_ok \in LoadOutcomes,
          refallback_ok \in LoadOutcomes, o \in SttOutcomes :
        \E r \in {Transcribed(jobs[i].chunk, speech, load_ok, fallback_ok,
                              refallback_ok, o)} :
            /\ model' = r.engine.model
            /\ device' = r.engine.device
            /\ compute_type' = r.engine.compute_type
            /\ jobs' = [jobs EXCEPT ![i] =
                           IF tasks[i].pc = "await_stt"
                               THEN [jobs[i] EXCEPT !.state = "ready", !.value = r.value]
                               ELSE NoJob]
    /\ UNCHANGED <<aside, on_transcript, env, hint, lock, thr, maxConc, calls, hwm, lastRet,
                   capVars, sessVars,
                   task, tasks, produced, sent, fate, learned, notices>>

\* the loop gets the result of transcribe_chunk: if segment is None: continue;
\* else add_transcript(...), then await self.send_message(...)
LoopTranscribed(i) ==
    /\ LoopFree
    /\ tasks[i].pc = "await_stt"
    /\ jobs[i].state = "ready"
    /\ fate' = Bump(jobs[i].chunk.timestamp, "done")
    /\ IF Accepted(jobs[i].value)
           THEN LET segment == jobs[i].value
                IN  /\ AddTranscriptOf(segment.speaker, segment.text, segment.timestamp)
                    /\ learned' = IF segment.speaker = "you"
                                      THEN Append(learned, UserUtterance(segment))
                                      ELSE learned
                    /\ produced' = Append(produced, segment)
                    /\ tasks' = [tasks EXCEPT ![i] = [pc |-> "await_send", seg |-> segment]]
                    /\ jobs' = [jobs EXCEPT ![i] = NoJob]
           ELSE /\ SubmitGet(i)
                /\ UNCHANGED <<transcript_log, disk, written, nadds, sop, produced, learned>>
    /\ UNCHANGED <<aside, engVars, capVars, current_session, task, sent, notices>>

MutCaught(t) == [t EXCEPT !.pc = "done", !.seg = Absent]

\* except Exception as e: print(...); await asyncio.sleep(0.5): the task is
\* kept and sleeps
Caught(t) == [t EXCEPT !.pc = "sleep", !.seg = Absent]

\* the loop gets a segment and add_transcript raises when it opens the file:
\* the entry is in the list and not in the file, the except clause of the
\* loop logs the exception and sleeps 0.5 s
LoopLogFails(i) ==
    /\ LoopFree
    /\ tasks[i].pc = "await_stt"
    /\ jobs[i].state = "ready"
    /\ Accepted(jobs[i].value)
    /\ fate' = Bump(jobs[i].chunk.timestamp, "done")
    /\ transcript_log' = Append(transcript_log,
                                [speaker |-> jobs[i].value.speaker,
                                 text |-> jobs[i].value.text,
                                 timestamp |-> jobs[i].value.timestamp])
    /\ produced' = Append(produced, jobs[i].value)
    /\ tasks' = [tasks EXCEPT ![i] = Caught(tasks[i])]
    /\ jobs' = [jobs EXCEPT ![i] = NoJob]
    /\ sop' = "add_failed"
    /\ UNCHANGED <<aside, engVars, capVars, current_session, disk, written, nadds, task, sent,
                   learned, notices>>

\* await asyncio.sleep(0.5) ends: the next iteration
LoopBackoff(i) ==
    /\ LoopFree
    /\ tasks[i].pc = "sleep"
    /\ SubmitGet(i)
    /\ UNCHANGED <<aside, engVars, capVars, sessVars, task, produced, sent, fate, learned,
                   notices>>

\* the message is sent: the next iteration begins
LoopSent(i) ==
    /\ LoopFree
    /\ tasks[i].pc = "await_send"
    /\ sent' = Append(sent, TranscriptMessage(tasks[i].seg))
    /\ SubmitGet(i)
    /\ UNCHANGED <<aside, engVars, capVars, sessVars, task, produced, fate, learned, notices>>

\* what a loop task does
TaskStep(i) ==
    \/ LoopBegin(i)
    \/ LoopGot(i)
    \/ LoopTranscribed(i)
    \/ LoopSent(i)

\* what the executor thread of its job does
JobStep(i) ==
    \/ GetChunk(i)
    \/ SttRun(i)

\* how a recording stop goes on once begun
StopStep ==
    \/ JoinMic
    \/ RecordingJoined
    \/ RecordingCancel

WorkerStep(w) ==
    \/ Open(w)
    \/ Check(w)
    \/ ReadOk(w)
    \/ ReadFail(w)
    \/ Backoff(w)
    \/ DummyEmit(w)
    \/ DummyWake(w)

PipelineNext ==
    \/ RecordingStart
    \/ RecordingStop
    \/ StopStep
    \/ \E w \in Workers : WorkerStep(w)
    \/ \E i \in TaskIds : TaskStep(i) \/ JobStep(i)

\* the engine as AlterBackend.__init__ constructs it; no call made yet
EngineNew ==
    /\ hint \in {"cuda", "cpu"}
    /\ model = None
    /\ device = hint
    /\ compute_type = IF device = "cuda" THEN "float16" ELSE "int8"
    /\ lock = 0
    /\ thr = [t \in Threads |-> IdleThread]
    /\ maxConc = 1
    /\ calls = 0
    /\ hwm = 0
    /\ lastRet = NoReturn
    /\ on_transcript = None

\* devices are selected: on win32 a microphone, with or without a loopback
\* device, at the rate of the pipeline; elsewhere the dummy sources
CaptureSelected ==
    /\ platform \in {"win32", "linux"}
    /\ audio_capture = "AudioCapture"
    /\ \E speaker \in DeviceIndices :
        /\ platform # "win32" => speaker = None
        /\ cap = NewCapture(IF platform = "win32" THEN "dev" ELSE None, speaker)
        /\ devinfo = [s \in Sources |->
                         IF s = "you"
                             THEN (IF platform = "win32"
                                       THEN [native_rate |-> SampleRate, channels |-> 1]
                                       ELSE NoInfo)
                             ELSE (IF speaker # None
                                       THEN [native_rate |-> SampleRate, channels |-> 2]
                                       ELSE NoInfo)]
    /\ wk = [w \in Workers |-> NoWorker]
    /\ nwk = 0
    /\ quota = MaxChunks
    /\ nreads = 0
    /\ clock = 0
    /\ ctl = [pc |-> "idle", starts |-> 0]
    /\ hist = [w \in Workers |-> NoHist]

InitPipeline == env = "gate" /\ EngineNew /\ CaptureSelected /\ SessionInit /\ RouterInit /\ GateInit /\ TextInit

SpecPipeline == InitPipeline /\ [][PipelineNext]_vars

\* a stop once begun, the loop tasks and the executor threads are not starved:
\* the joins of stop() time out, the event loop and the thread pool are fair
Fairness ==
    /\ WF_vars(StopStep)
    /\ \A i \in TaskIds : WF_vars(TaskStep(i)) /\ WF_vars(JobStep(i))

\* win32 with a microphone alone whose reads succeed, the stub engine
InitRecording ==
    /\ env = "stub"
    /\ TextInit
    /\ GateInit
    /\ EngineNew
    /\ CaptureSelected
    /\ platform = "win32"
    /\ cap.speaker_device_index = None
    /\ SessionInit
    /\ RouterInit

RecordingNext ==
    \/ RecordingStart
    \/ RecordingStop
    \/ StopStep
    \/ \E w \in Workers : Open(w) \/ Check(w) \/ ReadOk(w)
    \/ \E i \in TaskIds : TaskStep(i) \/ JobStep(i)

SpecRecording == InitRecording /\ [][RecordingNext]_vars /\ Fairness

\* what the faults of the file system and of thread creation add
FaultStep(i) ==
    \/ LoopLogFails(i)
    \/ LoopBackoff(i)

\* a frontend that asks for a start when nothing is recorded ...
StartIdle ==
    /\ task = 0
    /\ RecordingStart

\* ... and for a stop when something is
StopRecording ==
    /\ task # 0
    /\ RecordingStop

FaultsNext ==
    \/ StartIdle
    \/ StopRecording
    \/ StopStep
    \/ RecordingStartFails
    \/ \E w \in Workers : Open(w) \/ Check(w) \/ ReadOk(w)
    \/ \E i \in TaskIds : TaskStep(i) \/ JobStep(i) \/ FaultStep(i)

SpecFaults ==
    /\ InitRecording
    /\ [][FaultsNext]_vars
    /\ Fairness
    /\ \A i \in TaskIds : WF_vars(LoopBackoff(i))

\* the backend as constructed on win32: no AudioCapture yet; the devices the
\* frontend may select report the rate of the pipeline; the workers are
\* followed up to the first chunk one of them puts
InitDevices ==
    /\ env = "stub"
    /\ TextInit
    /\ GateInit
    /\ EngineNew
    /\ hint = "cuda"
    /\ platform = "win32"
    /\ audio_capture = None
    /\ cap = NewCapture(None, None)
    /\ devinfo = [s \in Sources |->
                     [native_rate |-> SampleRate, channels |-> IF s = "you" THEN 1 ELSE 2]]
    /\ wk = [w \in Workers |-> NoWorker]
    /\ nwk = 0
    /\ quota = 1
    /\ nreads = 0
    /\ clock = 0
    /\ ctl = [pc |-> "idle", starts |-> 0]
    /\ hist = [w \in Workers |-> NoHist]
    /\ SessionInit
    /\ RouterInit

\* the messages select_devices, for a microphone or for no device, and
\* recording in any order, and the capture workers they start
DevicesNext ==
    \/ \E mic \in DeviceIndices : SelectDevices(mic, None)
    \/ RecordingStartMessage
    \/ RecordingStopMessage
    \/ StopStep
    \/ \E w \in Workers : Open(w) \/ Check(w) \/ ReadOk(w)

SpecDevices == InitDevices /\ [][DevicesNext]_vars

\* the dummy sources, the gate failing open, the stub engine: one recording
\* start and no stop
InitE2E ==
    /\ env = "stub"
    /\ TextInit
    /\ GateInit
    /\ EngineNew
    /\ CaptureSelected
    /\ platform = "linux"
    /\ SessionInit
    /\ RouterInit

E2EStart ==
    /\ ctl.starts = 0
    /\ RecordingStart

E2ENext ==
    \/ E2EStart
    \/ \E w \in Workers : Check(w) \/ DummyEmit(w) \/ DummyWake(w)
    \/ \E i \in TaskIds : TaskStep(i) \/ JobStep(i)

SpecE2E ==
    /\ InitE2E
    /\ [][E2ENext]_vars
    /\ \A i \in TaskIds : WF_vars(TaskStep(i)) /\ WF_vars(JobStep(i))

\* ... and a stop of that recording
CancelNext ==
    \/ E2ENext
    \/ RecordingStop
    \/ StopStep

SpecCancel == InitE2E /\ [][CancelNext]_vars

\* the engine at rest, for the specifications that do not run it
EngineIdle ==
    /\ env = "any"
    /\ hint = "cuda"
    /\ model = None
    /\ device = "cuda"
    /\ compute_type = "float16"
    /\ lock = 0
    /\ thr = [t \in Threads |-> IdleThread]
    /\ maxConc = 1
    /\ calls = 0
    /\ hwm = 0
    /\ lastRet = NoReturn
    /\ on_transcript = None

InitCapture == CaptureInit /\ EngineIdle /\ SessionInit /\ RouterInit /\ GateInit /\ TextInit

SpecCapture == InitCapture /\ [][CaptureNext]_vars

InitEngine == EngineInit /\ CaptureIdle /\ SessionInit /\ RouterInit /\ GateInit /\ TextInit

InitSession == SessionInit /\ EngineIdle /\ CaptureIdle /\ RouterInit /\ GateInit /\ TextInit

SpecSession == InitSession /\ [][SessionNext]_vars

SpecRename == InitSession /\ [][RenamingNext]_vars

InitGate == GateInit /\ SessionInit /\ EngineIdle /\ CaptureIdle /\ RouterInit /\ TextInit

SpecGate == InitGate /\ [][GateNext]_vars

InitText ==
    /\ TextInit
    /\ GateInit
    /\ SessionInit
    /\ EngineIdle
    /\ CaptureIdle
    /\ RouterInit

SpecText == InitText /\ [][TextNext]_vars

SpecEngine == InitEngine /\ [][EngineNext]_vars

InitCallback ==
    /\ EngineHeard
    /\ CaptureIdle
    /\ SessionInit
    /\ RouterInit
    /\ GateInit
    /\ TextInit

SpecCallback == InitCallback /\ [][CallbackNext]_vars

(***************************************************************************)
(* Claims about the transcription engine                                   *)
(***************************************************************************)

\* C1: however many threads call transcribe_chunk at once, at most one
\* speech-to-text invocation is in progress: the high-water mark of concurrent
\* invocations never exceeds 1.
C1_ExclusiveInference == hwm <= 1 /\ inflight <= 1

\* one thread is inside the invocation while another waits for the lock
C1_Witness ==
    /\ hwm = 1
    /\ \E t1, t2 \in Threads : thr[t1].pc = "infer" /\ thr[t2].pc = "lock_wait"

\* the last call to return had the primary backend raise a backend fault
FaultedOnPrimary ==
    /\ lastRet # NoReturn
    /\ lastRet.h = "cuda"
    /\ lastRet.hfb # None

\* no thread is constructing or invoking the primary backend
NoPrimaryInUse == \A t \in Threads : thr[t].ldev # "cuda" /\ thr[t].h # "cuda"

C3_FallbackIsTerminal ==
    [][(maxConc = 1 /\ hint = "cuda" /\ EngineState(model) = "FALLBACK_LOADED")
          => EngineState(model') = "FALLBACK_LOADED"]_vars

\* C4: transcribe_chunk never raises to its caller; a call whose invocation
\* raised returns None, and its except clause ran the fallback exactly when the
\* message names CUDA or cuBLAS.
C4_NeverRaises ==
    lastRet # NoReturn =>
        /\ lastRet.value # Raised
        /\ lastRet.exc # None =>
              /\ lastRet.value = Absent
              /\ (lastRet.hfb # None) <=> (lastRet.exc \in {"cuda", "cublas"})

\* a call whose invocation raised something other than a backend fault returned
C4_Witness ==
    /\ lastRet # NoReturn
    /\ lastRet.exc = "other"
    /\ lastRet.h # None

\* the value a call returned is a segment
IsSegment(value) == value # Absent /\ value # Raised

\* C21: with a callback registered, a call that returns a segment has invoked
\* the callback with that segment, once, before it returned, and a call that
\* returns None has not invoked the callback.
C21_CallbackOncePerSegment ==
    /\ lastRet # NoReturn =>
           lastRet.told = IF IsSegment(lastRet.value) THEN <<lastRet.value>> ELSE << >>
    /\ \A t \in Threads : Len(thr[t].told) <= 1

\* the step of a call that the gate turns away
GateRejects == calls' # calls /\ thr' = thr

\* C22: a call whose chunk the gate finds no speech in returns None at once:
\* nothing is loaded, the backend and the callback are not invoked, the handle,
\* the device and the lock are as they were; only calls whose chunk passed the
\* gate go on, and only their steps change the handle, so an UNLOADED engine
\* stays UNLOADED until such a call.
C22_GateRejects ==
    /\ [](lastRet # NoReturn /\ ~lastRet.speech =>
             /\ lastRet.value = Absent
             /\ lastRet.h = None
             /\ lastRet.load = None
             /\ lastRet.exc = None
             /\ lastRet.hfb = None
             /\ lastRet.told = << >>)
    /\ [](\A t \in Threads : thr[t].pc # "idle" => thr[t].speech)
    /\ [][/\ GateRejects =>
                (/\ ~lastRet'.speech
                 /\ <<model, device, compute_type, lock, hwm>>'
                        = <<model, device, compute_type, lock, hwm>>)
          /\ (EngineState(model') # EngineState(model)) =>
                (\E t \in Threads : thr[t].speech /\ thr'[t] # thr[t])]_vars

\* the gate has turned away the chunk of the last call, made on an engine with
\* a callback that is still UNLOADED
C22_Witness ==
    /\ lastRet # NoReturn
    /\ ~lastRet.speech
    /\ Registered(on_transcript)
    /\ EngineState(model) = "UNLOADED"
    /\ ActiveCalls = 0

\* C23: a call whose load_model left no handle, the load and (for the
\* accelerator) the fallback load having failed, returns None: it invokes no
\* backend and raises nothing; with callers that wait for one another it finds
\* no handle at its check, and a call past the check has one.
C23_NoBackendNoCall ==
    /\ (lastRet # NoReturn /\ lastRet.load = "failed") =>
           /\ lastRet.value = Absent
           /\ lastRet.h = None
           /\ lastRet.exc = None
    /\ maxConc = 1 =>
           \A t \in Threads :
               /\ (thr[t].pc = "check_loaded" /\ thr[t].load = "failed") => model = None
               /\ thr[t].pc = "lock_wait" => model # None

\* on an engine for the accelerator the load and the fallback load failed and
\* the call returned
C23_Witness ==
    /\ lastRet # NoReturn
    /\ lastRet.load = "failed"
    /\ hint = "cuda"
    /\ device = "cpu"
    /\ EngineState(model) = "UNLOADED"

\* segment is what transcribe_chunk makes of chunk
MadeOf(segment, chunk) ==
    /\ segment.speaker = chunk.source
    /\ segment.timestamp = chunk.timestamp
    /\ segment.duration = [num |-> Len(chunk.data), den |-> SampleRate]

\* C25: a segment that transcribe_chunk(chunk) returns has the source of the
\* chunk as its speaker, the timestamp of the chunk, and the number of samples
\* of the chunk over the sample rate as its duration, whatever other calls are
\* in progress with other chunks.
C25_SegmentOfChunk ==
    /\ (lastRet # NoReturn /\ IsSegment(lastRet.value)) => MadeOf(lastRet.value, lastRet.chunk)
    /\ \A t \in Threads : thr[t].result # Absent => MadeOf(thr[t].result, thr[t].chunk)

\* the call with the chunk of the remote source returned a segment while a call
\* with a chunk of the local source was in progress
C25_Witness ==
    /\ lastRet # NoReturn
    /\ IsSegment(lastRet.value)
    /\ lastRet.chunk.source = "target"
    /\ \E t \in Threads : thr[t].pc # "idle" /\ thr[t].chunk.source = "you"

\* the threads inside a WhisperModel(...) constructor
Loading == {t \in Threads : thr[t].pc \in {"constructing", "fb_constructing"}}

\* the threads about to assign, discard or replace the handle
Replacing == {t \in Threads : thr[t].pc \in {"constructing", "fb_discard", "fb_constructing"}}

\* C29: loads and fallbacks are serialized with inference: no thread is about
\* to assign, discard or replace the handle while another is inside the
\* backend, two constructors never run at once, and a call that passed the
\* check of the handle has a handle when it comes to invoke it.
C29_LoadsSerialized ==
    /\ Cardinality(Loading) <= 1
    /\ inflight > 0 => Replacing = {}
    /\ \A t \in Threads : thr[t].pc = "lock_wait" => model # None

\* the state changes the state machine of the engine allows
Allowed(from, to) ==
    \/ from = to
    \/ from = "UNLOADED" /\ to = "PRIMARY_LOADED"
    \/ from = "PRIMARY_LOADED" /\ to = "FALLBACK_LOADED"

\* C30: an engine configured for cuda and called by one thread at a time starts
\* UNLOADED and changes state only UNLOADED -> PRIMARY_LOADED or
\* PRIMARY_LOADED -> FALLBACK_LOADED: it never enters FALLBACK_LOADED from
\* UNLOADED and never returns to UNLOADED.
C30_StateMachine ==
    [][(maxConc = 1 /\ hint = "cuda")
          => Allowed(EngineState(model), EngineState(model'))]_vars

\* the WhisperModel(...) of load_model raises in thread t at this step
LoadFails(t) ==
    thr[t].pc = "constructing" /\ thr'[t].pc # "constructing" /\ thr'[t].load # "loaded"

\* C35: the hint decides which backend is tried first and nothing else: an
\* engine that is still on the device of its hint and whose load fails
\* attempts the fallback, as the engine with the other hint does when it
\* observes the same failure.
C35_HintOnlyOrdersBackends ==
    [][\A t \in Threads : (device = hint /\ LoadFails(t)) => thr'[t].pc = "fb_device"]_vars

(***************************************************************************)
(* Claims about audio capture                                              *)
(***************************************************************************)

\* C6: every AudioChunk put on the shared queue, by a real capture source or by
\* a dummy source, has exactly chunk_size samples; what is short of a full
\* window stays in the carry-over buffer of its source.
C6_ChunkLength ==
    /\ \A i \in 1 .. Len(cap.audio_queue) : Len(cap.audio_queue[i].data) = chunk_size
    /\ \A w \in Workers : Len(wk[w].buffer) < chunk_size

\* a resampling source has put two chunks and holds a partial window
C6_Witness ==
    \E w \in Workers :
        /\ wk[w].kind = "read"
        /\ wk[w].native_rate # SampleRate
        /\ wk[w].buffer # << >>
        /\ Cardinality({i \in 1 .. Len(cap.audio_queue) :
                           cap.audio_queue[i].source = wk[w].source}) >= 2

\* C7: for every capture source, all chunks emitted so far followed by the
\* carry-over buffer are the samples read so far, in read order: none missing,
\* repeated or reordered, whatever reads failed in between.
C7_LosslessOrdered ==
    \A w \in Workers : hist[w].read = hist[w].emitted \o wk[w].buffer

\* a source backs off after a failed read, with a chunk emitted and samples
\* carried over
C7_Witness ==
    \E w \in Workers :
        /\ wk[w].pc = "backoff"
        /\ hist[w].emitted # << >>
        /\ wk[w].buffer # << >>

\* the step in which a read of worker w raises
FailsRead(w) == wk[w].pc = "read" /\ wk'[w].pc # "read" /\ hist'[w].failed

\* C17: a read error in a running capture source ends neither its worker nor
\* anything else: the worker keeps its carry-over buffer and the queue is as
\* it was, it sleeps, and while the source is running it reads again; a
\* worker ends only when its stream cannot be opened or the source is stopped.
C17_ReadErrorSurvived ==
    [][\A w \in Workers :
          /\ FailsRead(w) =>
                 /\ wk'[w] = [wk[w] EXCEPT !.pc = IF cap.running THEN "backoff" ELSE "check"]
                 /\ cap' = cap
                 /\ \A v \in Workers \ {w} : wk'[v] = wk[v]
          /\ (wk[w].pc = "backoff" /\ wk'[w] # wk[w]) =>
                 wk'[w] = [wk[w] EXCEPT !.pc = "check"]
          /\ (wk[w].pc = "check" /\ wk[w].kind = "read" /\ cap.running /\ wk'[w] # wk[w]) =>
                 wk'[w] = [wk[w] EXCEPT !.pc = "read"]
          /\ (wk[w].pc # "dead" /\ wk'[w].pc = "dead") =>
                 \/ wk[w].pc = "open"
                 \/ wk[w].pc = "check" /\ ~cap.running]_vars

\* a running source reads again after a failed read, with the samples it
\* carried over
C17_Witness ==
    \E w \in Workers :
        /\ cap.running
        /\ wk[w].pc = "read"
        /\ hist[w].failed
        /\ wk[w].buffer # << >>

\* C18: a capture worker that a stop() has asked to end begins no read after
\* the one it is in.
C18_NoReadAfterStop == \A w \in Workers : hist[w].stop # "ignored"

\* round(num / den) for positive integers
Rounded(num, den) == (2 * num + den) \div (2 * den)

\* C36: a read of n mono samples adds round(n * sample_rate / native_rate)
\* samples to what the worker has converted when the rates differ, and the n
\* samples themselves when they are equal.
C36_ResampledLength ==
    [][\A w \in Workers :
          (wk[w].pc = "read" /\ hist'[w].read # hist[w].read) =>
              LET n == FramesPerRead(wk[w].native_rate)
                  added == SubSeq(hist'[w].read, Len(hist[w].read) + 1, Len(hist'[w].read))
              IN  IF wk[w].native_rate = SampleRate
                      THEN /\ Len(added) = n
                           /\ \A i \in 1 .. n : added[i].num = 0 /\ added[i].lo = added[i].hi
                      ELSE Len(added) = Rounded(n * SampleRate, wk[w].native_rate)]_vars

\* the workers of a source that were started and have not ended
AliveWorkers(source) ==
    {w \in Workers : wk[w].source = source /\ wk[w].pc \notin {"unborn", "dead"}}

\* C28: whatever start() and stop() calls are made, at most one capture worker
\* of each source is alive.
C28_OneWorkerPerSource == \A source \in Sources : Cardinality(AliveWorkers(source)) <= 1

\* the platform gives no audio source to read: it is not win32, or no worker
\* that reads a device is left
NoUsableSource ==
    platform # "win32" \/ \A w \in Workers : wk[w].kind = "read" => wk[w].pc = "dead"

\* the dummy workers of a source that have not ended
Dummies(source) == {w \in AliveWorkers(source) : wk[w].kind = "dummy"}

\* C37: while capture is running on a platform with no usable audio source,
\* each of the two channels has a worker that emits all-zero chunks.
C37_SilenceWithoutSource ==
    (cap.running /\ NoUsableSource) => \A source \in Sources : Dummies(source) # {}

\* no recording is going on: the last recording message handled was a stop,
\* or there was none
Stopped == ctl.pc = "idle" /\ task = 0

\* C32: once a recording stop has been handled, and until the next start, no
\* capture worker started before it goes on capturing: each one has ended or
\* finds _running False at its next test, whatever select_devices, start and
\* stop messages came before.
C32_StopReachesWorkers ==
    Stopped => \A w \in Workers : wk[w].pc \notin {"unborn", "dead"} => ~Running(w)

\* C33: while no devices are selected, handling a recording message changes
\* nothing but the messages sent: no session is created, no worker and no loop
\* task is started, and what a start is answered with is the error message.
C33_StartNeedsDevices ==
    [][(audio_capture = None /\ audio_capture' = None) =>
          /\ UNCHANGED <<sessVars, cap, wk, nwk, task, tasks, jobs>>
          /\ notices' \subseteq notices \cup {ErrorMessage(NoDevices), StatusMessage(FALSE, 0)}
          /\ ctl'.starts = ctl.starts]_vars

\* a start was answered with the error, and there is still no session, no
\* worker and no task
C33_Witness ==
    /\ audio_capture = None
    /\ ErrorMessage(NoDevices) \in notices
    /\ current_session = 0
    /\ nwk = 0
    /\ task = 0 /\ \A i \in TaskIds : tasks[i] = NoTask

(***************************************************************************)
(* Claims about the session transcript                                     *)
(***************************************************************************)

\* C8: the records added with add_transcript to a session are what reloading
\* that session yields: load_session leaves a transcript log of as many
\* records, in the order they were added, each with the same speaker, text
\* and timestamp; and so would loading any session on disk.
C8_RoundTrip ==
    /\ sop = "load" => transcript_log = written[current_session]
    /\ sop # "load_failed"
    /\ \A id \in SessionIds :
          LoadTranscript(disk[id].transcript) = [ok |-> TRUE, val |-> written[id]]

\* a session was reloaded with two records whose texts need escaping
C8_Witness ==
    /\ sop = "load"
    /\ Len(transcript_log) = 2
    /\ transcript_log[1].text = <<"a", LF, "a">>
    /\ transcript_log[2].text = <<BSL, "n">>

(***************************************************************************)
(* The pipeline                                                            *)
(***************************************************************************)
\* a loop task that is alive holds chunk k: as the result of its get_chunk
\* job or as the argument of its transcribe_chunk job
Held(k) ==
    \E i \in TaskIds :
        /\ tasks[i].pc \in {"await_get", "await_stt"}
        /\ jobs[i].chunk # NoChunk
        /\ jobs[i].chunk.timestamp = k

\* C5: whatever point of the loop a cancellation arrives at, every chunk
\* removed from the queue is removed once and is completed once (segment
\* published or chunk rejected), or is still on its way through a loop
C5_NoChunkLost ==
    \A k \in ChunkIds :
        /\ fate[k].taken <= 1
        /\ fate[k].done <= 1
        /\ (fate[k].taken = 1 /\ fate[k].done = 0) => Held(k)

\* the chunks the workers of source s have put on the queue
RECURSIVE PushedUpTo(_, _)
PushedUpTo(s, w) ==
    IF w = 0 THEN 0
    ELSE PushedUpTo(s, w - 1)
         + (IF wk[w].source = s THEN Len(hist[w].emitted) \div chunk_size ELSE 0)

Pushed(s) == PushedUpTo(s, MaxWorkers)

\* the segments of speaker s the loop has got
Segments(s) == Cardinality({j \in 1 .. Len(produced) : produced[j].speaker = s})

\* C9: with the gate failing open and the stub engine, the loop produces one
\* segment per chunk the dummy sources emit, none missing and none extra:
\* every segment has the duration chunk length / sample rate and the
\* timestamp of a chunk of its own, no channel ever has more segments than
\* chunks, and in the end every channel has as many segments as chunks (one
\* each, two in all, when each source emits one chunk)
C9_OneSegmentPerChunk ==
    /\ [](\A j \in 1 .. Len(produced) :
            /\ produced[j].duration = [num |-> chunk_size, den |-> SampleRate]
            /\ \A l \in 1 .. Len(produced) :
                   produced[j].timestamp = produced[l].timestamp => j = l)
    /\ [](\A s \in Sources : Segments(s) <= Pushed(s))
    /\ <>[](\A s \in Sources : Segments(s) = Pushed(s))

C9_Witness ==
    /\ Pushed("you") = 1
    /\ Pushed("target") = 1
    /\ Len(produced) = 2
    /\ {produced[1].speaker, produced[2].speaker} = Sources
    /\ produced[1].duration = [num |-> chunk_size, den |-> SampleRate]
    /\ produced[2].duration = [num |-> chunk_size, den |-> SampleRate]

\* self._transcription_task is a task
LoopRunning == task # 0

\* no chunk is removed from the queue twice or handed to transcribe_chunk twice
C10_AtMostOnce == \A k \in ChunkIds : fate[k].taken <= 1 /\ fate[k].handed <= 1

\* C10: every chunk pushed is removed from the queue at most once and handed
\* to transcribe_chunk at most once, and unless the loop stops running it is
\* eventually handed to transcribe_chunk
C10_ConsumedExactlyOnce ==
    /\ []C10_AtMostOnce
    /\ \A k \in ChunkIds : [](clock >= k => <>(fate[k].handed = 1 \/ ~LoopRunning))

(***************************************************************************)
(* The speech gate                                                         *)
(***************************************************************************)
\* C11: when the voice-activity model cannot be loaded, or making the tensor
\* or scoring a sub-window raises, contains_speech returns True
C11_FailOpen ==
    (gate.called /\ gate.outcome \in {"unavailable", "error"}) => gate.result

C11_Witness ==
    /\ gate.called
    /\ gate.outcome = "error"
    /\ 2 \in ScanRange(gate.n)
    /\ gate.scores[1] <= threshold
    /\ gate.scores[1] # Raises
    /\ gate.scores[2] = Raises
    /\ gate.result

\* C12: with the capability available and no error, contains_speech returns
\* True exactly if some whole sub-window of the chunk, the last one included,
\* has a confidence above the threshold
C12_AnyWindowAboveThreshold ==
    (/\ gate.called
     /\ gate.outcome \in {"speech", "none"}
     /\ \A k \in FullWindows(gate.n) : gate.scores[k] # Raises)
        => (gate.result <=> \E k \in FullWindows(gate.n) : gate.scores[k] > threshold)

\* C20: the recurrent state of the gate is never fed by chunks of two
\* sessions: reset() comes between a session boundary and the next chunk
C20_ResetAtBoundary == Cardinality(vad.fed) <= 1

(***************************************************************************)
(* The text of a segment                                                   *)
(***************************************************************************)
\* the places of fragment f that hold something other than whitespace
Inked(f) == {j \in 1 .. Len(f) : f[j] \notin Whitespace}

Least(S) == CHOOSE x \in S : \A y \in S : x <= y

Greatest(S) == CHOOSE x \in S : \A y \in S : x >= y

\* fragment f without the whitespace around it
Core(f) == SubSeq(f, Least(Inked(f)), Greatest(Inked(f)))

\* where in the text the core of fragment i begins: after the cores of the
\* fragments before it that have one, and one space each
RECURSIVE Offset(_, _)
Offset(frags, i) ==
    IF i = 1 THEN 0
    ELSE Offset(frags, i - 1)
         + (IF Inked(frags[i - 1]) = {} THEN 0 ELSE Len(Core(frags[i - 1])) + 1)

\* C13: the text is the fragments in order, each without the whitespace
\* around it, those that are empty then left out, with exactly one space
\* between one and the next and nothing before the first or after the last
C13_TrimmedJoined ==
    txt.done =>
        LET frags == txt.frags
            kept == {i \in 1 .. Len(frags) : Inked(frags[i]) # {}}
            end == Offset(frags, Len(frags) + 1)
        IN  /\ Len(txt.text) = IF kept = {} THEN 0 ELSE end - 1
            /\ \A i \in kept :
                /\ SubSeq(txt.text, Offset(frags, i) + 1,
                          Offset(frags, i) + Len(Core(frags[i]))) = Core(frags[i])
                /\ i # Greatest(kept)
                       => txt.text[Offset(frags, i) + Len(Core(frags[i])) + 1] = " "

C13_Witness ==
    /\ txt.done
    /\ txt.frags = << <<"a">>, << >>, <<" ", "b", " ">> >>
    /\ txt.text = <<"a", " ", "b">>

\* C24: when the transcription returns no fragment, or only fragments that
\* are empty or whitespace, None is returned, and only then; the text of a
\* segment that is returned is not empty and holds more than whitespace.
C24_NoTextNoSegment ==
    txt.done =>
        /\ txt.absent <=> \A i \in 1 .. Len(txt.frags) : Inked(txt.frags[i]) = {}
        /\ ~txt.absent => (txt.text # << >> /\ Inked(txt.text) # {})

\* a transcription of whitespace and empty fragments only gave no segment
C24_Witness ==
    /\ txt.done
    /\ txt.frags = << <<" ">>, << >>, <<" ">> >>
    /\ txt.absent

\* p is the beginning of q
IsPrefix(p, q) == Len(p) <= Len(q) /\ SubSeq(q, 1, Len(p)) = p

\* C31: whenever there is a current session, the transcript log in memory is
\* the sequence of records in the transcript file of that session, in the
\* order of the file.
C31_LogMirrorsFile ==
    current_session # 0 =>
        \E stored \in {LoadTranscript(disk[current_session].transcript)} :
            stored.ok /\ transcript_log = stored.val

\* the records in the file of session id
Records(files, id) == LoadTranscript(files[id].transcript).val

\* C26: the transcript file of a session only grows: add_transcript puts one
\* record at the end of the log in memory and, in the same step, one record,
\* the same, at the end of the file of the current session, and leaves the
\* files of the other sessions alone; create_session, load_session and
\* rename_session leave every file as it is.
C26_AppendOnly ==
    [][/\ \A id \in SessionIds : IsPrefix(disk[id].transcript, disk'[id].transcript)
       /\ IF nadds' # nadds
              THEN LET entry == transcript_log'[Len(transcript_log')]
                   IN  /\ transcript_log' = Append(transcript_log, entry)
                       /\ current_session' = current_session
                       /\ \A id \in SessionIds :
                              Records(disk', id) =
                                  IF id = current_session
                                      THEN Append(Records(disk, id), entry)
                                      ELSE Records(disk, id)
              ELSE \A id \in SessionIds : disk'[id].transcript = disk[id].transcript]_vars

\* a session whose file holds two records is no more the current one
C26_Witness ==
    \E id \in SessionIds :
        /\ Len(Records(disk, id)) = 2
        /\ current_session \notin {0, id}
        /\ sop = "rename"

(***************************************************************************)
(* What the loop publishes                                                 *)
(***************************************************************************)
\* the entries of one speaker stand in non-decreasing order of timestamp
ChannelOrdered(log) ==
    \A i \in 1 .. Len(log) : \A j \in i + 1 .. Len(log) :
        log[i].speaker = log[j].speaker => log[i].timestamp <= log[j].timestamp

\* C14: for each channel, the segments appended to the transcript log and
\* those forwarded to the transport stand in non-decreasing order of their
\* timestamp, the order in which the channel's chunks were pushed
C14_ChannelFifo == ChannelOrdered(transcript_log) /\ ChannelOrdered(sent)

Range(q) == {q[j] : j \in 1 .. Len(q)}

\* every segment a loop has got is in the transcript log
C15_Appended ==
    \A j \in 1 .. Len(produced) : TranscriptMessage(produced[j]) \in Range(transcript_log)

\* the learning collector has got the segments of the local speaker, no others
C15_LearnedIffLocal ==
    /\ \A j \in 1 .. Len(produced) :
           produced[j].speaker = "you"
               <=> \E l \in Range(learned) : /\ l.text = produced[j].text
                                             /\ l.timestamp = produced[j].timestamp
    /\ \A l \in Range(learned) :
           \E j \in 1 .. Len(produced) : /\ produced[j].speaker = "you"
                                         /\ l.text = produced[j].text
                                         /\ l.timestamp = produced[j].timestamp

\* the segment is forwarded, or the task that got it is about to forward it
C15_Forwarded ==
    \A j \in 1 .. Len(produced) :
        \/ TranscriptMessage(produced[j]) \in Range(sent)
        \/ \E i \in TaskIds : tasks[i].pc = "await_send" /\ tasks[i].seg = produced[j]

\* C15: every segment transcribe_chunk returns to a loop is appended to the
\* transcript log and forwarded to the transport as {speaker, text,
\* timestamp}, and is given to the learning collector exactly if its speaker
\* is the local one
C15_Published == C15_Appended /\ C15_Forwarded /\ C15_LearnedIffLocal

\* the loop tasks that were created and have not ended
AliveLoops == {i \in TaskIds : tasks[i].pc \notin {"unborn", "done"}}

\* C27: whatever start and stop messages arrive, at most one loop task is
\* alive, and when a stop has been handled (no task is held and no handler is
\* running) none is.
C27_SingleLoop ==
    /\ Cardinality(AliveLoops) <= 1
    /\ (task = 0 /\ ctl.pc = "idle") => AliveLoops = {}

\* the task sleeps after an exception, or its wait for a chunk has timed out
Waiting(i) ==
    \/ tasks[i].pc = "sleep"
    \/ tasks[i].pc = "await_get" /\ jobs[i].state = "ready" /\ jobs[i].chunk = NoChunk

\* the task waits for a chunk that an executor thread is asked for
Polling(i) == tasks[i].pc = "await_get" /\ jobs[i].state = "running"

\* a task has ended
Ended(i) == tasks[i].pc = "done"

\* a transcribe_chunk call of loop i is in progress
Transcribing(i) == jobs[i].kind = "stt" /\ jobs[i].state = "running"

\* C34: the loop hands transcribe_chunk to the pool and awaits it: while a call
\* is in progress the task that made it is suspended or cancelled, the event
\* loop can handle a recording stop unless it is already handling one, and
\* the stop once handled leaves the task cancelled, whether or not the call
\* has returned.
C34_SchedulerNeverBlocked ==
    /\ [](\A i \in TaskIds : Transcribing(i) =>
             /\ tasks[i].pc \in {"await_stt", "done"}
             /\ (ctl.pc = "idle" => ENABLED RecordingStop))
    /\ [][\A i \in TaskIds : (ctl.pc = "cancel" /\ ctl'.pc = "idle" /\ task = i) =>
             tasks'[i].pc = "done"]_vars

\* the stop has been handled and the loop is cancelled while the call it made
\* has not returned
C34_Witness ==
    \E i \in TaskIds : Transcribing(i) /\ tasks[i].pc = "done" /\ task = 0 /\ ctl.pc = "idle"

C19_OnlySegmentsAndStatus == \A m \in notices : m.type = "status" /\ m.message = ""

====
